---- MODULE Spec2Model ----
(***************************************************************************)
(* Bar-replay trading engine: TradingEngine.process_bar                    *)
(* (src/src/engine/core.py), RiskManager.update                            *)
(* (src/src/risk/risk_manager.py) and DrawdownTracker                      *)
(* (src/src/risk/drawdown.py).                                             *)
(*                                                                         *)
(* Conventions.  Python None is the empty tuple <<>>; an Optional value    *)
(* that is not itself a tuple is wrapped as <<v>>.  The empty string is    *)
(* <<>> too.  A drawdown percentage is an exact rational [n, d] in lowest  *)
(* terms (the inputs below are chosen so that the float computation of the *)
(* source is exact at the limits).  A timestamp is a record                *)
(* [year, month, day, hour]; its isoformat() string is the tuple of its    *)
(* fields.                                                                 *)
(***************************************************************************)
EXTENDS Integers, Sequences, FiniteSets

VARIABLES
    \* ---- RiskManager (risk_manager.py:58-82)
    _cfg,                 \* RiskConfig: three optional limits
    _peak_equity,         \* _global_tracker._peak_equity
    _max_drawdown_pct,    \* _global_tracker._max_drawdown_pct
    _risk_halted,
    _risk_halted_at,
    _daily_paused,
    _current_day,
    _day_start_equity,
    _daily_halts,
    _monthly_paused,
    _current_month,
    _month_start_equity,
    _monthly_halts,
    _last_equity_close,
    risk_action,          \* the RiskAction returned by the latest update call
    n_updates,            \* number of RiskManager.update calls so far
    update_bar_ts,        \* the bar_ts argument of the latest update call
    \* ---- TradingEngine (core.py:47-61)
    _equity,
    _position,
    _entry_price,
    _entry_ts,
    _pending_intent,
    all_fills,
    equity_records,
    bar,                  \* the bar_row of the latest process_bar call (None before the first)
    signal,               \* what strategy.on_bar returned in the latest process_bar (None: not called)
    done,                 \* the replay has processed its last bar
    \* ---- a DrawdownTracker and compute_drawdown_pct driven on their own
    \* (test_drawdown_correctness.py:290-323); the tracker's fields are
    \* _peak_equity and _max_drawdown_pct above
    tracker_equity,       \* the equities passed to DrawdownTracker.update so far
    tracker_states,       \* the DrawdownState returned by each of these calls
    dd_call,              \* the latest compute_drawdown_pct call: arguments and result
    \* ---- components called on their own, as their unit tests call them
    strategy_call,        \* the latest Strategy.on_bar call: strategy, ctx, can_trade, result
    _REGISTRY,            \* registry.py: type name -> builder
    registry_call,        \* the latest register or build_strategy call: its arguments and outcome
    bars_df,              \* the caller's bar DataFrame (None until it is read)
    validate_result,      \* the outcome of the latest validate_bars call
    bars,                 \* the outcome of the latest BarIterator(...) call
    feature_specs,        \* FeaturePipeline.specs of the pipeline under test
    ohlcv_df,             \* the OHLCV DataFrame passed to transform (None until it is read)
    X_df,                 \* the outcome of the latest FeaturePipeline.transform call
    \* ---- run_backtest (runner.py:31-264)
    run,                  \* its position in the code, its locals and its outcome
    \* ---- adx_filtered_crossover.build called on its own
    build_call,           \* the latest build call: params and outcome
    \* ---- _execute_order (core.py:161-213) called on its own
    order_call            \* the latest _execute_order call: arguments and result

riskVars == <<_cfg, _peak_equity, _max_drawdown_pct, _risk_halted, _risk_halted_at,
              _daily_paused, _current_day, _day_start_equity, _daily_halts,
              _monthly_paused, _current_month, _month_start_equity, _monthly_halts,
              _last_equity_close, risk_action, n_updates, update_bar_ts>>

engineVars == <<_equity, _position, _entry_price, _entry_ts, _pending_intent,
                all_fills, equity_records, bar, signal, done>>

trackerVars == <<tracker_equity, tracker_states, dd_call>>

strategyVars == <<strategy_call>>
registryVars == <<_REGISTRY, registry_call>>

barsVars == <<bars_df, validate_result, bars>>
pipelineVars == <<feature_specs, ohlcv_df, X_df>>
runVars == <<run>>
builderVars == <<build_call>>
orderVars == <<order_call>>

callVars == <<strategyVars, registryVars, barsVars, pipelineVars, runVars, builderVars, orderVars>>

vars == <<riskVars, engineVars, trackerVars, callVars>>

----------------------------------------------------------------------------
\* Bounds and inputs

MaxUpdates == 4
MaxBars == 4
MaxFeed == 4
MaxRegister == 1
MaxRows == 3
MaxSpecs == 3
MaxSteps == 5
StartingCapital == 100
PositionSize == 1

None == <<>>
Some(v) == <<v>>
EmptyStr == <<>>

\* an exception raised, or the value returned
Raises(exception, message) == [raises |-> exception, message |-> message]
Returns(value) == [returns |-> value]

\* RiskConfig: each limit is None or a percentage
Opt(S) == {None} \cup {Some(l) : l \in S}
Configs == [max_drawdown_pct : Opt({10}), daily_dd_limit : Opt({5}), monthly_dd_limit : Opt({5})]

\* Timestamps: two bars of one day, a day boundary, a month boundary with the
\* same day of month, and a year boundary with the same month and day.
Ts(y, m, d, h) == [year |-> y, month |-> m, day |-> d, hour |-> h]
Timestamps == {Ts(2024, 1, 1, 0), Ts(2024, 1, 1, 1), Ts(2024, 1, 2, 0),
               Ts(2024, 2, 1, 0), Ts(2025, 1, 1, 0)}

Equities == {0, 90, 95, 100, 105}
Prices == {10, 20}

\* equities fed to a tracker on its own, and arguments of compute_drawdown_pct
TrackerEquities == {50, 90, 100, 120, 130}
Peaks == {-10, 0, 100}
Currents == {5, 50, 80, 100, 120}
Bars == [time : Timestamps, open : Prices, close : Prices]

Signals == {[direction |-> 1, strength |-> 1, reason |-> "cross_above"],
            [direction |-> -1, strength |-> 1, reason |-> "cross_below"],
            [direction |-> 0, strength |-> 1, reason |-> "equal"]}

----------------------------------------------------------------------------
\* Arithmetic helpers

Abs(x) == IF x < 0 THEN -x ELSE x

RECURSIVE GCD(_, _)
GCD(a, b) == IF b = 0 THEN a ELSE GCD(b, a % b)

\* a / b as a1 / b1 in [1, 2), each a power of two times a or b: the
\* significand of the double quotient is a1 * 2^52 / b1, rounded
RECURSIVE Normalise(_, _)
Normalise(a, b) ==
    IF a < b THEN Normalise(2 * a, b)
    ELSE IF a >= 2 * b THEN Normalise(a, 2 * b)
    ELSE [a1 |-> a, b1 |-> b]

\* long division by b1, k digits of the given base: the remainder and the
\* last eight bits of the quotient
RECURSIVE LongDivision(_, _, _, _, _)
LongDivision(r, b1, base, k, low) ==
    IF k = 0 THEN [rem |-> r, low |-> low]
    ELSE LongDivision((base * r) % b1, b1, base, k - 1,
                      (base * low + (base * r) \div b1) % 256)

\* the sign of fl(fl(n / (100 d)) * 100) - n / d in IEEE double arithmetic:
\* what (peak - current) / peak * 100 adds to the exact percentage n / d
\* (-1 below it, 0 exact, 1 above it).  The quotient's significand is
\* floor or ceiling of a1 * 2^52 / b1, ties to even; its product with 100 has
\* 59 or 60 bits and loses its last 6 or 7, ties to even again.
FloatErr(n, d) ==
    LET Sign(err) == IF err < 0 THEN -1 ELSE IF err > 0 THEN 1 ELSE 0
        \* the product: p its last eight bits, lost the part that is rounded away
        Times100(b1, err1, p, unit, lost) ==
            Sign(100 * err1
                 + b1 * (IF 2 * lost > unit \/ (2 * lost = unit /\ (p \div unit) % 2 = 1)
                         THEN unit - lost ELSE -lost))
        Product(b1, err1, p, unit) == Times100(b1, err1, p, unit, p % unit)
        \* the quotient: up when the significand is the ceiling
        Rounded(a1, b1, rem, low, up) ==
            Product(b1, IF up THEN b1 - rem ELSE -rem,
                    (100 * (low + (IF up THEN 1 ELSE 0))) % 256,
                    IF 25 * a1 < 32 * b1 THEN 64 ELSE 128)
        Quotient(a1, b1, q) ==
            Rounded(a1, b1, q.rem, q.low,
                    2 * q.rem > b1 \/ (2 * q.rem = b1 /\ q.low % 2 = 1))
        \* the 52 bits after the leading one: 4 digits of 13 bits where the
        \* products fit the machine integers, 13 digits of 4 bits otherwise
        Divide(ab) ==
            Quotient(ab.a1, ab.b1,
                     IF ab.b1 < 262144
                     THEN LongDivision(ab.a1 - ab.b1, ab.b1, 8192, 4, 1)
                     ELSE LongDivision(ab.a1 - ab.b1, ab.b1, 16, 13, 1))
    IN IF n = 0 THEN 0
       ELSE (IF n < 0 THEN -1 ELSE 1) * Divide(Normalise(Abs(n), 100 * d))

\* the double (peak - current) / peak * 100: its exact value n / d in lowest
\* terms, and the side of it on which the double lies
Rat(n, d) ==
    LET g == GCD(Abs(n), d)
    IN [n |-> n \div g, d |-> d \div g, err |-> FloatErr(n \div g, d \div g)]
Zero == [n |-> 0, d |-> 1, err |-> 0]
\* a < b on doubles: the exact values decide, and the rounding where they are equal
RatLT(a, b) ==
    \/ a.n * b.d < b.n * a.d
    \/ a.n * b.d = b.n * a.d /\ a.err < b.err
RatGE(a, b) == ~RatLT(a, b)
RatGT(a, b) == RatLT(b, a)
RatMax(a, b) == IF RatLT(a, b) THEN b ELSE a
OfInt(i) == [n |-> i, d |-> 1, err |-> 0]

\* f"{x:.2f}": the double in hundredths, rounded to nearest; a double that is
\* exactly halfway goes to the even neighbour
Fmt2(r) ==
    LET down == (100 * r.n) \div r.d
        rest == 2 * ((100 * r.n) % r.d)
    IN IF rest > r.d \/ (rest = r.d /\ (r.err > 0 \/ (r.err = 0 /\ down % 2 = 1)))
       THEN down + 1 ELSE down

----------------------------------------------------------------------------
\* Timestamps

isoformat(ts) == <<ts.year, ts.month, ts.day, ts.hour>>
date(ts) == <<ts.year, ts.month, ts.day>>
month_key(ts) == <<ts.year, ts.month>>

\* chronological order of two timestamps
TsLT(a, b) ==
    \/ a.year < b.year
    \/ a.year = b.year /\ a.month < b.month
    \/ a.year = b.year /\ a.month = b.month /\ a.day < b.day
    \/ a.year = b.year /\ a.month = b.month /\ a.day = b.day /\ a.hour < b.hour

----------------------------------------------------------------------------
\* drawdown.py

\* mutant: the result is not clamped at zero
compute_drawdown_pct_NoClamp(peak, current) ==
    IF peak <= 0 THEN Zero
    ELSE Rat((peak - current) * 100, peak)

compute_drawdown_pct(peak, current) ==
    IF peak <= 0 THEN Zero
    ELSE LET dd == Rat((peak - current) * 100, peak)
         IN RatMax(dd, Zero)

\* mutant: the peak follows the current equity instead of being a high-water mark
TrackerUpdate_PeakFollows(peak, maxdd, current_equity) ==
    LET dd_pct == compute_drawdown_pct(current_equity, current_equity)
        maxdd1 == IF RatGT(dd_pct, maxdd) THEN dd_pct ELSE maxdd
    IN [peak_equity |-> current_equity, current_drawdown_pct |-> dd_pct,
        max_drawdown_pct |-> maxdd1]

\* mutant: the maximum drawdown is overwritten by the current one
TrackerUpdate_LastDD(peak, maxdd, current_equity) ==
    LET peak1 == IF current_equity > peak THEN current_equity ELSE peak
        dd_pct == compute_drawdown_pct(peak1, current_equity)
    IN [peak_equity |-> peak1, current_drawdown_pct |-> dd_pct, max_drawdown_pct |-> dd_pct]

\* DrawdownTracker.update as a function of the tracker's fields
TrackerUpdate(peak, maxdd, current_equity) ==
    LET peak1 == IF current_equity > peak THEN current_equity ELSE peak
        dd_pct == compute_drawdown_pct(peak1, current_equity)
        maxdd1 == IF RatGT(dd_pct, maxdd) THEN dd_pct ELSE maxdd
    IN [peak_equity |-> peak1, current_drawdown_pct |-> dd_pct, max_drawdown_pct |-> maxdd1]

----------------------------------------------------------------------------
\* risk_manager.py

Init_RiskManager ==
    /\ _cfg \in Configs
    /\ _peak_equity = StartingCapital
    /\ _max_drawdown_pct = Zero
    /\ _risk_halted = FALSE
    /\ _risk_halted_at = None
    /\ _daily_paused = FALSE
    /\ _current_day = None
    /\ _day_start_equity = StartingCapital
    /\ _daily_halts = 0
    /\ _monthly_paused = FALSE
    /\ _current_month = None
    /\ _month_start_equity = StartingCapital
    /\ _monthly_halts = 0
    /\ _last_equity_close = StartingCapital
    /\ risk_action = [flatten |-> FALSE, halted |-> FALSE, reason |-> EmptyStr]
    /\ n_updates = 0
    /\ update_bar_ts = None

\* 0. period boundaries: the bar's date / (year, month) differs from the tracked one
NewDay(bar_date, current_day) == bar_date # current_day

\* mutant: the month boundary compares the month number only
NewMonth_MonthOnly(bar_month, current_month) ==
    IF current_month = None THEN TRUE ELSE bar_month[2] # current_month[2]

NewMonth(bar_month, current_month) == bar_month # current_month

\* the period baseline after the boundary check: the previous bar's MTM equity
\* when a boundary was crossed
\* mutant: the daily baseline is not refreshed at the boundary
DayStart_Stale(new_day, last_equity_close, day_start_equity) == day_start_equity

DayStart(new_day, last_equity_close, day_start_equity) ==
    IF new_day THEN last_equity_close ELSE day_start_equity

MonthStart(new_month, last_equity_close, month_start_equity) ==
    IF new_month THEN last_equity_close ELSE month_start_equity

\* mutant: a limit of None is read as a limit of zero
GlobalBreach_NoneAsZero(halted, limit, dd) ==
    /\ ~halted
    /\ RatGE(dd, IF limit = None THEN Zero ELSE OfInt(limit[1]))

\* mutant: the global check is strict at its limit
GlobalBreach_Strict(halted, limit, dd) ==
    /\ ~halted
    /\ limit # None
    /\ RatGT(dd, OfInt(limit[1]))

\* mutant: the global check fires again on a manager that is already halted
GlobalBreach_Rearm(halted, limit, dd) ==
    /\ limit # None
    /\ RatGE(dd, OfInt(limit[1]))

\* 1. the global check fires
GlobalBreach(halted, limit, dd) ==
    /\ ~halted
    /\ limit # None
    /\ RatGE(dd, OfInt(limit[1]))

\* mutant: the daily check is strict at its limit
DailyBreach_Strict(paused, limit, day_start_equity, current_equity) ==
    /\ ~paused
    /\ limit # None
    /\ day_start_equity > 0
    /\ RatGT(compute_drawdown_pct(day_start_equity, current_equity), OfInt(limit[1]))

\* mutant: the daily check does not look at the pause flag
DailyBreach_Repeats(paused, limit, day_start_equity, current_equity) ==
    /\ limit # None
    /\ day_start_equity > 0
    /\ RatGE(compute_drawdown_pct(day_start_equity, current_equity), OfInt(limit[1]))

\* 2. the daily check fires
DailyBreach(paused, limit, day_start_equity, current_equity) ==
    /\ ~paused
    /\ limit # None
    /\ day_start_equity > 0
    /\ RatGE(compute_drawdown_pct(day_start_equity, current_equity), OfInt(limit[1]))

\* 3. the monthly check fires
MonthlyBreach(paused, limit, month_start_equity, current_equity) ==
    /\ ~paused
    /\ limit # None
    /\ month_start_equity > 0
    /\ RatGE(compute_drawdown_pct(month_start_equity, current_equity), OfInt(limit[1]))

\* mutant: the global halt is left out of the sticky flatten
KeepFlattening_NoHalt(halted, daily_paused, monthly_paused) ==
    daily_paused \/ monthly_paused

\* mutant: the daily pause is left out of the sticky flatten
KeepFlattening_NoDaily(halted, daily_paused, monthly_paused) ==
    halted \/ monthly_paused

\* already halted/paused: keep flattening
KeepFlattening(halted, daily_paused, monthly_paused) ==
    halted \/ daily_paused \/ monthly_paused

\* mutant: halted reports flatten
RiskAction_HaltedIsFlatten(flatten, halted, reason) ==
    [flatten |-> flatten, halted |-> flatten, reason |-> reason]

\* the returned RiskAction
RiskAction(flatten, halted, reason) == [flatten |-> flatten, halted |-> halted, reason |-> reason]

\* one fragment of the reason: f"{kind} {dd:.2f}% >= limit {limit:.2f}%", with
\* limit the configured one (never None where the source formats it)
Fragment(kind, dd, limit) ==
    [kind |-> kind, dd |-> Fmt2(dd),
     limit |-> IF limit = None THEN None ELSE Fmt2(OfInt(limit[1]))]

\* mutant: the fragments are joined with a comma
join_Comma(sep, parts) ==
    [i \in 1..(IF parts = <<>> THEN 0 ELSE 2 * Len(parts) - 1) |->
        IF i % 2 = 1 THEN parts[(i + 1) \div 2] ELSE [text |-> ", "]]

\* sep.join(parts): a str is the sequence of its pieces, the fragments and
\* the separator text between two of them
join(sep, parts) ==
    [i \in 1..(IF parts = <<>> THEN 0 ELSE 2 * Len(parts) - 1) |->
        IF i % 2 = 1 THEN parts[(i + 1) \div 2] ELSE [text |-> sep]]

\* RiskManager.update(bar_ts, current_equity); risk_action' is the value returned.
update(bar_ts, current_equity) ==
    LET bar_ts_str == isoformat(bar_ts)
        bar_date == date(bar_ts)
        bar_month == month_key(bar_ts)
        new_day == NewDay(bar_date, _current_day)
        new_month == NewMonth(bar_month, _current_month)
        daily_paused0 == IF new_day THEN FALSE ELSE _daily_paused
        day_start == DayStart(new_day, _last_equity_close, _day_start_equity)
        monthly_paused0 == IF new_month THEN FALSE ELSE _monthly_paused
        month_start == MonthStart(new_month, _last_equity_close, _month_start_equity)
        state == TrackerUpdate(_peak_equity, _max_drawdown_pct, current_equity)
        g == GlobalBreach(_risk_halted, _cfg.max_drawdown_pct, state.current_drawdown_pct)
        d == DailyBreach(daily_paused0, _cfg.daily_dd_limit, day_start, current_equity)
        m == MonthlyBreach(monthly_paused0, _cfg.monthly_dd_limit, month_start, current_equity)
        halted1 == _risk_halted \/ g
        daily_paused1 == daily_paused0 \/ d
        monthly_paused1 == monthly_paused0 \/ m
        flatten == g \/ d \/ m \/ KeepFlattening(halted1, daily_paused1, monthly_paused1)
        reason_parts ==
            (IF g THEN <<Fragment("Global DD", state.current_drawdown_pct, _cfg.max_drawdown_pct)>>
                  ELSE <<>>)
            \o (IF d THEN <<Fragment("Daily DD", compute_drawdown_pct(day_start, current_equity),
                                     _cfg.daily_dd_limit)>>
                     ELSE <<>>)
            \o (IF m THEN <<Fragment("Monthly DD", compute_drawdown_pct(month_start, current_equity),
                                     _cfg.monthly_dd_limit)>>
                     ELSE <<>>)
    IN /\ _current_day' = bar_date
       /\ _day_start_equity' = day_start
       /\ _current_month' = bar_month
       /\ _month_start_equity' = month_start
       /\ _peak_equity' = state.peak_equity
       /\ _max_drawdown_pct' = state.max_drawdown_pct
       /\ _risk_halted' = halted1
       /\ _risk_halted_at' = IF g THEN bar_ts_str ELSE _risk_halted_at
       /\ _daily_paused' = daily_paused1
       /\ _daily_halts' = IF d THEN _daily_halts + 1 ELSE _daily_halts
       /\ _monthly_paused' = monthly_paused1
       /\ _monthly_halts' = IF m THEN _monthly_halts + 1 ELSE _monthly_halts
       /\ _last_equity_close' = current_equity
       /\ risk_action' = RiskAction(flatten, halted1, join("; ", reason_parts))
       /\ n_updates' = n_updates + 1
       /\ update_bar_ts' = Some(bar_ts)
       /\ UNCHANGED _cfg

\* RiskManager.metrics()
metrics ==
    [max_drawdown_pct |-> _max_drawdown_pct,
     risk_halted |-> _risk_halted,
     risk_halted_at |-> _risk_halted_at,
     daily_drawdown_pct_limit |-> _cfg.daily_dd_limit,
     monthly_drawdown_pct_limit |-> _cfg.monthly_dd_limit,
     daily_halts |-> _daily_halts,
     monthly_halts |-> _monthly_halts]

----------------------------------------------------------------------------
\* execution/models.py

OrderIntent(target_position, reason) == [target_position |-> target_position, reason |-> reason]

\* mutant: the entry and exit prices are passed in each other's place
Fill_SwappedPrices(entry_ts, exit_ts, side, qty, entry_price, exit_price, pnl) ==
    [entry_ts |-> entry_ts, exit_ts |-> exit_ts, side |-> side, qty |-> qty,
     entry_price |-> exit_price, exit_price |-> entry_price, pnl |-> pnl]

Fill(entry_ts, exit_ts, side, qty, entry_price, exit_price, pnl) ==
    [entry_ts |-> entry_ts, exit_ts |-> exit_ts, side |-> side, qty |-> qty,
     entry_price |-> entry_price, exit_price |-> exit_price, pnl |-> pnl]

----------------------------------------------------------------------------
\* engine/core.py

Init_TradingEngine ==
    /\ _equity = StartingCapital
    /\ _position = 0
    /\ _entry_price = 0
    /\ _entry_ts = EmptyStr
    /\ _pending_intent = None
    /\ all_fills = <<>>
    /\ equity_records = <<>>
    /\ bar = None
    /\ signal = None
    /\ done = FALSE

\* mutant: only a flatten (target zero) closes; a target across zero does not
Closes_FlattenOnly(target_position, position) ==
    /\ position # 0
    /\ target_position = 0

\* mutant: any change of target closes the position held
Closes_OnAnyChange(target_position, position) ==
    /\ position # 0
    /\ target_position # position

\* _execute_order: the closing leg (flatten or flip) applies
Closes(target_position, position) ==
    /\ position # 0
    /\ \/ position > 0 /\ target_position <= 0
       \/ position < 0 /\ target_position >= 0

\* mutant: the open is decided on the position the call was given, so a flip
\* closes and stays flat
_execute_order_NoReopen(target_position, position, entry_price, entry_ts, bar_open, bar_ts) ==
    IF position = target_position
    THEN [position |-> position, entry_price |-> entry_price, entry_ts |-> entry_ts, fills |-> <<>>]
    ELSE LET closes == Closes(target_position, position)
             pnl == IF position > 0 THEN (bar_open - entry_price) * Abs(position)
                                    ELSE (entry_price - bar_open) * Abs(position)
             side == IF position > 0 THEN "long" ELSE "short"
             fills == IF closes
                      THEN <<Fill(entry_ts, bar_ts, side, Abs(position), entry_price, bar_open, pnl)>>
                      ELSE <<>>
             position1 == IF closes THEN 0 ELSE position
             entry_price1 == IF closes THEN 0 ELSE entry_price
             opens == target_position # 0 /\ position = 0
         IN [position |-> IF opens THEN target_position ELSE position1,
             entry_price |-> IF opens THEN bar_open ELSE entry_price1,
             entry_ts |-> IF opens THEN bar_ts ELSE entry_ts,
             fills |-> fills]

_execute_order(target_position, position, entry_price, entry_ts, bar_open, bar_ts) ==
    IF position = target_position
    THEN [position |-> position, entry_price |-> entry_price, entry_ts |-> entry_ts, fills |-> <<>>]
    ELSE LET closes == Closes(target_position, position)
             pnl == IF position > 0 THEN (bar_open - entry_price) * Abs(position)
                                    ELSE (entry_price - bar_open) * Abs(position)
             side == IF position > 0 THEN "long" ELSE "short"
             fills == IF closes
                      THEN <<Fill(entry_ts, bar_ts, side, Abs(position), entry_price, bar_open, pnl)>>
                      ELSE <<>>
             position1 == IF closes THEN 0 ELSE position
             entry_price1 == IF closes THEN 0 ELSE entry_price
             opens == target_position # 0 /\ position1 = 0
         IN [position |-> IF opens THEN target_position ELSE position1,
             entry_price |-> IF opens THEN bar_open ELSE entry_price1,
             entry_ts |-> IF opens THEN bar_ts ELSE entry_ts,
             fills |-> fills]

\* mutant: the pending intent is not consulted
ExecTarget_HoldsPosition(pending_intent, position) == position

\* the target the execution step resolves from the pending intent
ExecTarget(pending_intent, position) ==
    IF pending_intent # None THEN pending_intent[1].target_position ELSE position

\* mutant: the pnl of the fills is not added to the realized equity
AddPnl_Dropped(equity, fills) == equity

\* for f in fills: self._equity += f.pnl
RECURSIVE AddPnl(_, _)
AddPnl(equity, fills) ==
    IF fills = <<>> THEN equity ELSE AddPnl(equity + Head(fills).pnl, Tail(fills))

\* mutant: the equity handed on is realized-only
Unrealized_RealizedOnly(position, entry_price, current_close) == 0

\* mark-to-market at the close
Unrealized(position, entry_price, current_close) ==
    IF position # 0
    THEN IF position > 0 THEN (current_close - entry_price) * Abs(position)
                         ELSE (entry_price - current_close) * Abs(position)
    ELSE 0

EquityRecord(ts, equity, position, unrealized_pnl, realized_pnl) ==
    [timestamp |-> ts, equity |-> equity, position |-> position,
     unrealized_pnl |-> unrealized_pnl, realized_pnl |-> realized_pnl]

\* mutant: only the latest bar's record is kept
AppendRecord_Overwrite(records, rec) ==
    IF records = <<>> THEN <<rec>> ELSE [records EXCEPT ![Len(records)] = rec]

\* 5. record equity: self.equity_records.append(...)
AppendRecord(records, rec) == Append(records, rec)

\* mutant: the risk gate is skipped
_decide_NoRiskGate(sig, action) == OrderIntent(sig.direction * PositionSize, sig.reason)

\* mutant: a flattened intent does not carry the risk reason
_decide_BareRiskReason(sig, action) ==
    IF action.flatten
    THEN OrderIntent(0, <<"risk:", EmptyStr>>)
    ELSE OrderIntent(sig.direction * PositionSize, sig.reason)

\* mutant: the intent asks for twice the position size
_decide_DoubleSize(sig, action) ==
    IF action.flatten
    THEN OrderIntent(0, <<"risk:", action.reason>>)
    ELSE OrderIntent(sig.direction * 2 * PositionSize, sig.reason)

\* TradingEngine._decide
_decide(sig, action) ==
    IF action.flatten
    THEN OrderIntent(0, <<"risk:", action.reason>>)
    ELSE OrderIntent(sig.direction * PositionSize, sig.reason)

\* mutant: the final bar is treated like any other
NextIntent_NoClear(is_last, sig, action) == Some(_decide(sig, action))

\* the intent left pending when process_bar returns
NextIntent(is_last, sig, action) ==
    IF is_last THEN None ELSE Some(_decide(sig, action))

\* TradingEngine.process_bar(bar_row, features_row, bar_index, is_last); sig is
\* what strategy.on_bar returns for this bar when it is called.
process_bar(bar_row, sig, is_last) ==
    LET bar_ts == bar_row.time
        bar_ts_str == isoformat(bar_ts)
        target_position == ExecTarget(_pending_intent, _position)
        ex == _execute_order(target_position, _position, _entry_price, _entry_ts,
                             bar_row.open, bar_ts_str)
        equity1 == AddPnl(_equity, ex.fills)
        unrealized_pnl == Unrealized(ex.position, ex.entry_price, bar_row.close)
        current_equity == equity1 + unrealized_pnl
    IN /\ _position' = ex.position
       /\ _entry_price' = ex.entry_price
       /\ _entry_ts' = ex.entry_ts
       /\ _equity' = equity1
       /\ all_fills' = all_fills \o ex.fills
       /\ update(bar_ts, current_equity)
       /\ equity_records' = AppendRecord(equity_records,
              EquityRecord(bar_ts_str, current_equity, ex.position, unrealized_pnl,
                           equity1 - StartingCapital))
       /\ bar' = Some(bar_row)
       /\ signal' = IF is_last THEN None ELSE Some(sig)
       /\ _pending_intent' = NextIntent(is_last, sig, risk_action')

----------------------------------------------------------------------------
\* strategy/: base.py, signal.py, ma_crossover.py, adx_filtered_crossover.py
\* A feature row is a function from the names of its columns to cells; a cell
\* is NaN or Some(number).  An object is the record of its attributes.

NaN == <<>>
FeatureNames == {"fast", "slow", "adx"}
FastSlowCells == {NaN, Some(100), Some(105)}
AdxCells == {NaN, Some(20), Some(25), Some(30)}
FeatureRows ==
    UNION {{f \in [D -> FastSlowCells \cup AdxCells] :
               \A c \in D : f[c] \in (IF c = "adx" THEN AdxCells ELSE FastSlowCells)}
           : D \in SUBSET FeatureNames}

\* StrategyContext; ts, bar and equity are read by neither strategy
StrategyContexts ==
    [bar_index : 0..3, features : FeatureRows, position : {-1, 0, 1}]

\* MACrossoverStrategy(fast_col, slow_col, size, _warmup_bars = 2), as its test builds it
MACrossoverStrategies ==
    [_name : {"ma_crossover"}, fast_col : {"fast"}, slow_col : {"slow"},
     size : {1, 2}, _warmup_bars : {2}]

\* ADXFilteredCrossoverStrategy(fast_col, slow_col, adx_col, adx_threshold = 25, _warmup_bars = 2)
ADXFilteredCrossoverStrategies ==
    [_name : {"adx_filtered_crossover"}, fast_col : {"fast"}, slow_col : {"slow"},
     adx_col : {"adx"}, adx_threshold : {25}, _warmup_bars : {2}]

Strategies == MACrossoverStrategies \cup ADXFilteredCrossoverStrategies

Signal(direction, strength, reason) ==
    [direction |-> direction, strength |-> strength, reason |-> reason]

StrategyDecision(target_position, reason) ==
    [target_position |-> target_position, stop_loss |-> None, take_profit |-> None,
     exit_now |-> FALSE, reason |-> reason]

required_features(strategy) ==
    IF strategy._name = "ma_crossover"
    THEN <<strategy.fast_col, strategy.slow_col>>
    ELSE <<strategy.fast_col, strategy.slow_col, strategy.adx_col>>

\* base.validate_features: every required feature is in the row and not NaN
validate_features(features, required) ==
    \A i \in 1..Len(required) :
        /\ required[i] \in DOMAIN features
        /\ features[required[i]] # NaN

\* can_trade, the same in both strategies
can_trade(strategy, ctx) ==
    IF ctx.bar_index < strategy._warmup_bars THEN FALSE
    ELSE IF ~validate_features(ctx.features, required_features(strategy)) THEN FALSE
    ELSE TRUE

\* MACrossoverStrategy.on_bar
MACrossoverStrategy_on_bar(strategy, ctx) ==
    IF ~can_trade(strategy, ctx)
    THEN StrategyDecision(0, "warmup/feature_nan")
    ELSE LET fast_val == ctx.features[strategy.fast_col][1]
             slow_val == ctx.features[strategy.slow_col][1]
         IN IF fast_val > slow_val THEN StrategyDecision(strategy.size, "cross_above")
            ELSE IF fast_val < slow_val THEN StrategyDecision(-strategy.size, "cross_below")
            ELSE StrategyDecision(0, "equal")

\* mutant: an ADX value equal to the threshold is filtered as well
ADXFilteredCrossoverStrategy_on_bar_AtThreshold(strategy, ctx) ==
    IF ~can_trade(strategy, ctx)
    THEN Signal(0, 0, "warmup/feature_nan")
    ELSE LET adx_val == ctx.features[strategy.adx_col][1]
             fast_val == ctx.features[strategy.fast_col][1]
             slow_val == ctx.features[strategy.slow_col][1]
         IN IF adx_val <= strategy.adx_threshold THEN Signal(0, 0, "adx_below_threshold")
            ELSE IF fast_val > slow_val THEN Signal(1, 1, "cross_above")
            ELSE IF fast_val < slow_val THEN Signal(-1, 1, "cross_below")
            ELSE Signal(0, 0, "equal")

\* ADXFilteredCrossoverStrategy.on_bar
ADXFilteredCrossoverStrategy_on_bar(strategy, ctx) ==
    IF ~can_trade(strategy, ctx)
    THEN Signal(0, 0, "warmup/feature_nan")
    ELSE LET adx_val == ctx.features[strategy.adx_col][1]
             fast_val == ctx.features[strategy.fast_col][1]
             slow_val == ctx.features[strategy.slow_col][1]
         IN IF adx_val < strategy.adx_threshold THEN Signal(0, 0, "adx_below_threshold")
            ELSE IF fast_val > slow_val THEN Signal(1, 1, "cross_above")
            ELSE IF fast_val < slow_val THEN Signal(-1, 1, "cross_below")
            ELSE Signal(0, 0, "equal")

on_bar(strategy, ctx) ==
    IF strategy._name = "ma_crossover"
    THEN MACrossoverStrategy_on_bar(strategy, ctx)
    ELSE ADXFilteredCrossoverStrategy_on_bar(strategy, ctx)

\* one on_bar call on a strategy of either kind
OnBarCall ==
    /\ strategy_call = None
    /\ \E strategy \in Strategies, ctx \in StrategyContexts :
          strategy_call' = Some([strategy |-> strategy, ctx |-> ctx,
                                 can_trade |-> can_trade(strategy, ctx),
                                 result |-> on_bar(strategy, ctx)])
    /\ UNCHANGED <<riskVars, engineVars, trackerVars, builderVars, orderVars,
                   pipelineVars, runVars,
                   registryVars, barsVars>>

\* strategy/registry.py
\* A config dict is a function from its keys to cells (None or Some(value)).
\* A builder is known by its name; what it builds is outside build_strategy.

ConfigKeys == {"type", "fast_period", "slow_period", "indicator_type", "adx_period"}
TypeCells == {None, Some("ma_crossover"), Some("adx_filtered"), Some("custom"),
              Some("nonexistent")}
DictMerge(a, b) == [k \in DOMAIN a \cup DOMAIN b |-> IF k \in DOMAIN a THEN a[k] ELSE b[k]]
EmptyDict == [k \in {} |-> None]
StrategyConfigs ==
    {DictMerge(t, p) :
        t \in {EmptyDict} \cup {[type |-> c] : c \in TypeCells},
        p \in {DictMerge(DictMerge(f, sl), DictMerge(i, a)) :
                   f \in {EmptyDict, [fast_period |-> Some(10)]},
                   sl \in {EmptyDict, [slow_period |-> Some(30)]},
                   i \in {EmptyDict, [indicator_type |-> Some("sma")],
                          [indicator_type |-> Some("ema")]},
                   a \in {EmptyDict, [adx_period |-> Some(14)]}}}
RegisteredNames == {"ma_crossover", "adx_filtered", "custom"}
Builders == {"_build_ma", "_build_adx", "_build_custom"}

\* registry.py:12, _REGISTRY as the module body creates it; the registry is
\* empty exactly as long as the module has not been imported to its end
Init_Registry ==
    /\ _REGISTRY = EmptyDict
    /\ registry_call = None

\* from src.strategy.registry import ...: the registry the caller gets, or
\* the ImportError of registry.py:46-47 (ma_crossover.py defines its class
\* only, adx_filtered_crossover.py its class and build); a module whose
\* import failed is not kept, so the next import runs the module body again
ImportRegistry(registry) ==
    LET defined == [ma_crossover |-> {"MACrossoverStrategy"},
                    adx_filtered_crossover |-> {"ADXFilteredCrossoverStrategy", "build"}]
    IN IF registry # EmptyDict THEN Returns(registry)
       ELSE IF "build" \notin defined["ma_crossover"]
       THEN Raises("ImportError",
                   <<"cannot import name 'build' from 'src.strategy.ma_crossover'">>)
       ELSE IF "build" \notin defined["adx_filtered_crossover"]
       THEN Raises("ImportError",
                   <<"cannot import name 'build' from 'src.strategy.adx_filtered_crossover'">>)
       ELSE Returns([name \in {"ma_crossover", "adx_filtered"} |->
                        IF name = "ma_crossover" THEN "_build_ma" ELSE "_build_adx"])

\* dict.pop(key, None) on a copy: the value, and the dict without the key
DictPop(d, key) ==
    [value |-> IF key \in DOMAIN d THEN d[key] ELSE None,
     rest |-> [k \in DOMAIN d \ {key} |-> d[k]]]

\* register(name, builder): _REGISTRY[name] = builder
register(registry, name, builder) ==
    [n \in DOMAIN registry \cup {name} |-> IF n = name THEN builder ELSE registry[n]]

\* build_strategy(strategy_cfg): the caller's dict after the call and the
\* outcome, an exception raised or the builder called with its params
build_strategy(registry, strategy_cfg) ==
    LET popped == DictPop(strategy_cfg, "type")
        cfg == popped.rest
        strategy_type == popped.value
    IN [strategy_cfg |-> strategy_cfg,
        outcome |->
           IF strategy_type = None
           THEN [raises |-> "ValueError", message |-> <<"strategy config must contain a 'type' key">>]
           ELSE IF strategy_type[1] \notin DOMAIN registry
           THEN [raises |-> "ValueError",
                 message |-> <<"Unknown strategy type", strategy_type[1], DOMAIN registry>>]
           ELSE [calls |-> registry[strategy_type[1]], params |-> cfg]]

\* the caller imports register and calls it
RegisterCall ==
    /\ Cardinality(DOMAIN _REGISTRY) < 2 + MaxRegister
    /\ \E name \in RegisteredNames, builder \in Builders :
          LET imported == ImportRegistry(_REGISTRY)
          IN IF "raises" \in DOMAIN imported
             THEN /\ registry_call' = Some([op |-> "register", registry |-> _REGISTRY,
                                            name |-> name, builder |-> builder,
                                            outcome |-> imported])
                  /\ UNCHANGED _REGISTRY
             ELSE /\ _REGISTRY' = register(imported.returns, name, builder)
                  /\ registry_call' = Some([op |-> "register", registry |-> imported.returns,
                                            name |-> name, builder |-> builder,
                                            outcome |-> Returns(None)])
    /\ UNCHANGED <<riskVars, engineVars, trackerVars, builderVars, orderVars,
                   pipelineVars, runVars,
                   strategyVars, barsVars>>

\* the caller imports build_strategy and calls it
BuildStrategyCall ==
    /\ \E strategy_cfg \in StrategyConfigs :
          LET imported == ImportRegistry(_REGISTRY)
          IN IF "raises" \in DOMAIN imported
             THEN /\ registry_call' = Some([op |-> "build_strategy", registry |-> _REGISTRY,
                                            before |-> strategy_cfg, after |-> strategy_cfg,
                                            outcome |-> imported])
                  /\ UNCHANGED _REGISTRY
             ELSE LET r == build_strategy(imported.returns, strategy_cfg)
                  IN /\ registry_call' = Some([op |-> "build_strategy",
                                               registry |-> imported.returns,
                                               before |-> strategy_cfg,
                                               after |-> r.strategy_cfg,
                                               outcome |-> r.outcome])
                     /\ _REGISTRY' = imported.returns
    /\ UNCHANGED <<riskVars, engineVars, trackerVars, builderVars, orderVars,
                   pipelineVars, runVars,
                   strategyVars, barsVars>>

----------------------------------------------------------------------------
\* replay/: validation.py, bar_iterator.py
\* A DataFrame is its set of columns and its rows in order; a row is a
\* function from the columns to cells.  A time cell is NaT or
\* Some(<<wall clock, UTC offset>>); pd.to_datetime(utc=True) turns it into
\* the instant wall clock - offset, with offset 0.  The other cells are NaN or
\* Some(number).

NaT == <<>>
OHLC == {"open", "high", "low", "close"}
ColumnSets == {{"time", "spread"} \cup OHLC, {"time"} \cup OHLC, {"spread"} \cup OHLC,
               {"time", "spread"}}
TimeCells == {NaT, Some(<<0, 0>>), Some(<<1, 0>>), Some(<<1, 1>>)}
OhlcParts == {[open |-> Some(100), high |-> Some(100), low |-> Some(100), close |-> Some(100)],
              [open |-> Some(100), high |-> Some(100), low |-> Some(100), close |-> NaN]}
SpreadCells == {Some(-1), Some(2)}

RowsOf(columns) ==
    {DictMerge(DictMerge(t, o), s) :
        t \in (IF "time" \in columns THEN {[time |-> c] : c \in TimeCells} ELSE {EmptyDict}),
        o \in (IF OHLC \subseteq columns THEN OhlcParts ELSE {EmptyDict}),
        s \in (IF "spread" \in columns THEN {[spread |-> c] : c \in SpreadCells}
                                       ELSE {EmptyDict})}

\* pd.to_datetime(cell, utc=True)
to_datetime_utc(cell) == IF cell = NaT THEN NaT ELSE Some(<<cell[1][1] - cell[1][2], 0>>)

\* the instant of a converted, non-null time cell
Instant(cell) == cell[1][1]

\* df[column] as the sequence of its cells
Column(df, column) == [i \in 1..Len(df.rows) |-> df.rows[i][column]]

\* series.isna().sum()
isna_sum(series) == Cardinality({i \in 1..Len(series) : series[i] = NaN})

\* mutant: every occurrence of a repeated timestamp is counted
duplicated_sum_KeepFalse(times) ==
    Cardinality({i \in 1..Len(times) : \E j \in 1..Len(times) : j # i /\ times[j] = times[i]})

\* times.duplicated().sum(): the rows that repeat an earlier row's timestamp
duplicated_sum(times) ==
    Cardinality({i \in 1..Len(times) : \E j \in 1..(i - 1) : times[j] = times[i]})

\* times.is_monotonic_increasing (not strict; False when a NaT is present)
is_monotonic_increasing(times) ==
    /\ \A i \in 1..Len(times) : times[i] # NaT
    /\ \A i \in 1..(Len(times) - 1) : Instant(times[i]) <= Instant(times[i + 1])

\* mutant: the time column of the caller's DataFrame is converted in place
validate_bars_ConvertsInPlace(df) ==
    IF "time" \notin df.columns
    THEN [df |-> df, outcome |-> Raises("ValueError", <<"Missing 'time' column">>)]
    ELSE IF isna_sum(Column(df, "time")) > 0
    THEN [df |-> df, outcome |-> Raises("ValueError", <<"Null timestamps found: ",
                                                        isna_sum(Column(df, "time")), " rows">>)]
    ELSE LET times == [i \in 1..Len(df.rows) |-> to_datetime_utc(df.rows[i]["time"])]
             df1 == [df EXCEPT !.rows = [i \in 1..Len(df.rows) |->
                                           [df.rows[i] EXCEPT !["time"] = times[i]]]]
             present == OHLC \cap df.columns
             na_cols == {c \in present : isna_sum(Column(df, c)) > 0}
             neg == Cardinality({i \in 1..Len(df.rows) : df.rows[i]["spread"][1] < 0})
         IN [df |-> df1,
             outcome |->
                IF duplicated_sum(times) > 0
                THEN Raises("ValueError", <<"Duplicate timestamps found: ", duplicated_sum(times)>>)
                ELSE IF ~is_monotonic_increasing(times)
                THEN Raises("ValueError", <<"Timestamps not monotonic increasing">>)
                ELSE IF na_cols # {}
                THEN Raises("ValueError", <<"NaN values in ", na_cols>>)
                ELSE IF "spread" \in df.columns /\ neg > 0
                THEN Raises("ValueError", <<"Negative spread found: ", neg, " rows">>)
                ELSE Returns(None)]

\* validate_bars(df): the caller's DataFrame after the call and the outcome
validate_bars(df) ==
    IF "time" \notin df.columns
    THEN [df |-> df, outcome |-> Raises("ValueError", <<"Missing 'time' column">>)]
    ELSE IF isna_sum(Column(df, "time")) > 0
    THEN [df |-> df, outcome |-> Raises("ValueError", <<"Null timestamps found: ",
                                                        isna_sum(Column(df, "time")), " rows">>)]
    ELSE LET times == [i \in 1..Len(df.rows) |-> to_datetime_utc(df.rows[i]["time"])]
             present == OHLC \cap df.columns
             na_cols == {c \in present : isna_sum(Column(df, c)) > 0}
             neg == Cardinality({i \in 1..Len(df.rows) : df.rows[i]["spread"][1] < 0})
         IN [df |-> df,
             outcome |->
                IF duplicated_sum(times) > 0
                THEN Raises("ValueError", <<"Duplicate timestamps found: ", duplicated_sum(times)>>)
                ELSE IF ~is_monotonic_increasing(times)
                THEN Raises("ValueError", <<"Timestamps not monotonic increasing">>)
                ELSE IF na_cols # {}
                THEN Raises("ValueError", <<"NaN values in ", na_cols>>)
                ELSE IF "spread" \in df.columns /\ neg > 0
                THEN Raises("ValueError", <<"Negative spread found: ", neg, " rows">>)
                ELSE Returns(None)]

\* df.sort_values("time").reset_index(drop=True) on converted times: NaT rows
\* last; the default sort is not stable, so rows with equal times may come
\* out in any order
sort_values(rows) ==
    LET n == Len(rows)
        perms == {p \in [1..n -> 1..n] : \A i, j \in 1..n : i # j => p[i] # p[j]}
        InOrder(a, b) == IF a = NaT THEN b = NaT
                         ELSE (b = NaT \/ Instant(a) <= Instant(b))
    IN {[i \in 1..n |-> rows[p[i]]] : p \in
           {q \in perms : \A i \in 1..(n - 1) :
                             InOrder(rows[q[i]]["time"], rows[q[i + 1]]["time"])}}

\* BarIterator._validate_and_clean(df): the possible outcomes
_validate_and_clean(df) ==
    IF "time" \notin df.columns
    THEN {Raises("ValueError", <<"DataFrame must contain a 'time' column">>)}
    ELSE LET converted == [i \in 1..Len(df.rows) |->
                             [df.rows[i] EXCEPT !["time"] = to_datetime_utc(df.rows[i]["time"])]]
         IN {IF ~is_monotonic_increasing([i \in 1..Len(sorted) |-> sorted[i]["time"]])
             THEN Raises("AssertionError",
                         <<"Timestamps are not monotonic increasing after dedup">>)
             ELSE IF Len(sorted) = 0
             THEN Raises("IndexError", <<"iloc[0] on an empty column">>)
             ELSE Returns([columns |-> df.columns, rows |-> sorted])
             : sorted \in sort_values(converted)}

\* the caller builds its DataFrame: the columns, then row after row, before
\* it passes it to validate_bars or BarIterator
NewFrame ==
    /\ bars_df = None
    /\ \E columns \in ColumnSets : bars_df' = Some([columns |-> columns, rows |-> <<>>])
    /\ UNCHANGED <<riskVars, engineVars, trackerVars, builderVars, orderVars,
                   pipelineVars, runVars,
                   strategyVars, registryVars,
                   validate_result, bars>>

AppendRow ==
    /\ bars_df # None
    /\ validate_result = None /\ bars = None
    /\ Len(bars_df[1].rows) < MaxRows
    /\ \E row \in RowsOf(bars_df[1].columns) :
          bars_df' = Some([bars_df[1] EXCEPT !.rows = Append(@, row)])
    /\ UNCHANGED <<riskVars, engineVars, trackerVars, builderVars, orderVars,
                   pipelineVars, runVars,
                   strategyVars, registryVars,
                   validate_result, bars>>

\* validate_bars(df)
ValidateCall ==
    /\ bars_df # None
    /\ LET r == validate_bars(bars_df[1])
       IN /\ bars_df' = Some(r.df)
          /\ validate_result' = Some(r.outcome)
    /\ UNCHANGED <<riskVars, engineVars, trackerVars, builderVars, orderVars,
                   pipelineVars, runVars,
                   strategyVars, registryVars, bars>>

\* bars = BarIterator(df): _df of the iterator, or the exception raised; the
\* constructor works on a copy of df
BarIteratorCall ==
    /\ bars_df # None
    /\ \E outcome \in _validate_and_clean(bars_df[1]) : bars' = Some(outcome)
    /\ UNCHANGED <<riskVars, engineVars, trackerVars, builderVars, orderVars,
                   pipelineVars, runVars,
                   strategyVars, registryVars,
                   bars_df, validate_result>>

Init_Bars ==
    /\ bars_df = None
    /\ validate_result = None
    /\ bars = None

----------------------------------------------------------------------------
\* indicators/core/pipeline.py, indicators/impl/*.py
\*
\* A Python str is the sequence of its characters, so that names can be
\* built by concatenation and compared the way sorted() compares them; a
\* feature column carries its label and, for its data, the computation that
\* produced it (the base indicator and the transforms applied to it, in
\* order); a DataFrame carries its row index and its columns in order.

\* the characters in code point order: digits, then '_', then the letters
Alphabet == <<"0", "1", "2", "3", "4", "5", "6", "7", "8", "9", "_",
              "a", "b", "c", "d", "e", "f", "g", "h", "i", "j", "k", "l", "m",
              "n", "o", "p", "q", "r", "s", "t", "u", "v", "w", "x", "y", "z">>
ord(c) == CHOOSE i \in 1..Len(Alphabet) : Alphabet[i] = c

\* str(n) for a natural number
RECURSIVE str(_)
str(n) == IF n < 10 THEN <<Alphabet[n + 1]>>
          ELSE str(n \div 10) \o <<Alphabet[(n % 10) + 1]>>

\* the characters of the column names an indicator reads
ColumnChars == [close |-> <<"c", "l", "o", "s", "e">>,
                spread |-> <<"s", "p", "r", "e", "a", "d">>]

\* a < b for two str
RECURSIVE StrLess(_, _)
StrLess(a, b) ==
    IF b = <<>> THEN FALSE
    ELSE IF a = <<>> THEN TRUE
    ELSE IF ord(Head(a)) # ord(Head(b)) THEN ord(Head(a)) < ord(Head(b))
    ELSE StrLess(Tail(a), Tail(b))

\* mutant: the columns are left in the order of the specs
sorted_AsConfigured(labels) == labels

\* sorted(labels)
RECURSIVE sorted(_)
sorted(labels) ==
    IF labels = <<>> THEN <<>>
    ELSE LET rest == sorted(Tail(labels))
             before == SelectSeq(rest, LAMBDA l : StrLess(l, Head(labels)))
             after == SelectSeq(rest, LAMBDA l : ~StrLess(l, Head(labels)))
         IN before \o <<Head(labels)>> \o after

SMA(period, src) == [indicator |-> "SMA", period |-> period, src |-> src]
EMA(period, src) == [indicator |-> "EMA", period |-> period, src |-> src]
ADX(period) == [indicator |-> "ADX", period |-> period]
Diff(k) == [transform |-> "Diff", k |-> k]
Lag(k) == [transform |-> "Lag", k |-> k]
ZScoreRolling(window) == [transform |-> "ZScoreRolling", window |-> window]
FeatureSpec(base, transforms, alias) ==
    [base |-> base, transforms |-> transforms, alias |-> alias]

\* SMA.name, EMA.name, ADX.name
Indicator_name(base) ==
    IF base.indicator = "SMA"
    THEN <<"s", "m", "a", "_">> \o str(base.period) \o <<"_">> \o ColumnChars[base.src]
    ELSE IF base.indicator = "EMA"
    THEN <<"e", "m", "a", "_">> \o str(base.period) \o <<"_">> \o ColumnChars[base.src]
    ELSE <<"a", "d", "x", "_">> \o str(base.period)

\* Diff.name, Lag.name, ZScoreRolling.name
Transform_name(t) ==
    IF t.transform = "Diff" THEN <<"_", "d", "i", "f", "f", "_">> \o str(t.k)
    ELSE IF t.transform = "Lag" THEN <<"_", "l", "a", "g", "_">> \o str(t.k)
    ELSE <<"_", "z", "s", "c", "o", "r", "e", "_">> \o str(t.window)

\* FeatureSpec.name: the alias when there is a non-empty one, else the base
\* name followed by each transform's name
RECURSIVE Concat(_)
Concat(strs) == IF strs = <<>> THEN <<>> ELSE Head(strs) \o Concat(Tail(strs))

FeatureSpec_name(spec) ==
    IF spec.alias # None /\ spec.alias[1] # <<>>
    THEN spec.alias[1]
    ELSE Indicator_name(spec.base)
            \o Concat([i \in 1..Len(spec.transforms) |-> Transform_name(spec.transforms[i])])

\* the specs a pipeline is configured from
my_custom_feature == <<"m", "y", "_", "c", "u", "s", "t", "o", "m", "_",
                       "f", "e", "a", "t", "u", "r", "e">>
FeatureSpecs ==
    {FeatureSpec(SMA(10, "close"), <<>>, None),
     FeatureSpec(SMA(10, "close"), <<Diff(1)>>, None),
     FeatureSpec(SMA(10, "close"), <<Diff(1), ZScoreRolling(20)>>, None),
     FeatureSpec(SMA(5, "close"), <<>>, None),
     FeatureSpec(ADX(14), <<Lag(2)>>, None),
     FeatureSpec(SMA(10, "close"), <<>>, Some(my_custom_feature)),
     FeatureSpec(SMA(10, "close"), <<Diff(1)>>, Some(<<>>)),
     FeatureSpec(SMA(10, "spread"), <<>>, None)}

\* the OHLCV DataFrames: their row index and their columns
required_columns == {"open", "high", "low", "close", "volume"}
OhlcvIndexes == {<<>>, <<0, 1>>, <<2, 0, 1>>}
OhlcvColumnSets == {required_columns, required_columns \cup {"spread"}, OHLC}
OhlcvFrames == [index : OhlcvIndexes, columns : OhlcvColumnSets]

\* validate_ohlcv(df)
validate_ohlcv(df) ==
    IF ~(required_columns \subseteq df.columns)
    THEN Raises("ValueError", <<"Input DataFrame missing required columns: ",
                                required_columns \ df.columns>>)
    ELSE Returns(None)

\* SMA.compute, EMA.compute, ADX.compute: the columns the indicator reads
\* must be there (ADX looks for high, low, close in that order and names the
\* first one missing); ADX writes tr[0] before its loop, which a frame with
\* no rows refuses; the result is one column named after the indicator, on
\* the index of the input
compute(base, ohlcv) ==
    IF base.indicator \in {"SMA", "EMA"} /\ base.src \notin ohlcv.columns
    THEN Raises("ValueError", <<"Source column '", base.src,
                                "' not found in input DataFrame.">>)
    ELSE IF base.indicator = "ADX" /\ ~({"high", "low", "close"} \subseteq ohlcv.columns)
    THEN Raises("ValueError",
                <<"Column '",
                  IF "high" \notin ohlcv.columns THEN "high"
                  ELSE IF "low" \notin ohlcv.columns THEN "low" ELSE "close",
                  "' not found in input DataFrame.">>)
    ELSE IF base.indicator = "ADX" /\ Len(ohlcv.index) = 0
    THEN Raises("IndexError", <<"index 0 is out of bounds for axis 0 with size 0">>)
    ELSE Returns([index |-> ohlcv.index,
                  columns |-> <<[label |-> Indicator_name(base),
                                 series |-> [base |-> base, transforms |-> <<>>]]>>])

\* Diff.apply, Lag.apply, ZScoreRolling.apply: index and labels are kept
apply(t, X) ==
    [X EXCEPT !.columns = [i \in 1..Len(X.columns) |->
        [X.columns[i] EXCEPT !.series.transforms = Append(@, t)]]]

RECURSIVE ApplyAll(_, _)
ApplyAll(transforms, X) ==
    IF transforms = <<>> THEN X
    ELSE ApplyAll(Tail(transforms), apply(Head(transforms), X))

\* pipeline.py:41-53, one spec: compute, apply the transforms, rename
FeatureOf(spec, ohlcv) ==
    LET computed == compute(spec.base, ohlcv)
    IN IF "raises" \in DOMAIN computed THEN computed
       ELSE LET df_feature == ApplyAll(spec.transforms, computed.returns)
            IN Returns(IF Len(df_feature.columns) = 1
                       THEN [df_feature EXCEPT !.columns[1].label = FeatureSpec_name(spec)]
                       ELSE df_feature)

\* X.reindex(labels, axis=1) where the labels of X are unique
reindex(X, labels) ==
    [X EXCEPT !.columns = [i \in 1..Len(labels) |->
        CHOOSE c \in {X.columns[k] : k \in 1..Len(X.columns)} : c.label = labels[i]]]

\* FeaturePipeline.transform(ohlcv)
transform(specs, ohlcv) ==
    IF "raises" \in DOMAIN validate_ohlcv(ohlcv) THEN validate_ohlcv(ohlcv)
    ELSE LET features == [i \in 1..Len(specs) |-> FeatureOf(specs[i], ohlcv)]
             failed == {i \in 1..Len(specs) : "raises" \in DOMAIN features[i]}
         IN IF failed # {}
            THEN features[CHOOSE i \in failed : \A j \in failed : i <= j]
            ELSE IF Len(specs) = 0
            THEN Returns([index |-> ohlcv.index, columns |-> <<>>])
            ELSE LET concat == [index |-> ohlcv.index,
                                columns |-> Concat([i \in 1..Len(specs) |->
                                                      features[i].returns.columns])]
                     labels == [i \in 1..Len(concat.columns) |-> concat.columns[i].label]
                 IN Returns(reindex(concat, sorted(labels)))

\* FeaturePipeline([...]): one more spec; the name of a spec is the key of
\* its column, so the specs of a pipeline have distinct names
AppendSpec ==
    /\ X_df = None
    /\ Len(feature_specs) < MaxSpecs
    /\ \E spec \in FeatureSpecs :
          /\ \A i \in 1..Len(feature_specs) :
                FeatureSpec_name(feature_specs[i]) # FeatureSpec_name(spec)
          /\ feature_specs' = Append(feature_specs, spec)
    /\ UNCHANGED <<riskVars, engineVars, trackerVars, builderVars, orderVars,
                   strategyVars, registryVars, barsVars,
                   runVars, ohlcv_df, X_df>>

\* the OHLCV frame the test passes
ReadOhlcv ==
    /\ ohlcv_df = None
    /\ \E frame \in OhlcvFrames : ohlcv_df' = Some(frame)
    /\ UNCHANGED <<riskVars, engineVars, trackerVars, builderVars, orderVars,
                   strategyVars, registryVars, barsVars,
                   runVars, feature_specs, X_df>>

\* X = pipeline.transform(ohlcv)
TransformCall ==
    /\ ohlcv_df # None
    /\ X_df' = Some(transform(feature_specs, ohlcv_df[1]))
    /\ UNCHANGED <<riskVars, engineVars, trackerVars, builderVars, orderVars,
                   strategyVars, registryVars, barsVars,
                   runVars, feature_specs, ohlcv_df>>

Init_Pipeline ==
    /\ feature_specs = <<>>
    /\ ohlcv_df = None
    /\ X_df = None

----------------------------------------------------------------------------
\* engine/runner.py: run_backtest, from the loaded DataFrame to the end of
\* the replay loop. The DataFrame is represented by its number of rows and
\* whether validate_bars accepts it; its bars and the rows of X are drawn as
\* the loop reads them.

RunSlowPeriod == 1
RunStrategy == [_name |-> "ma_crossover", fast_col |-> "fast", slow_col |-> "slow",
                size |-> 1, _warmup_bars |-> RunSlowPeriod]
RunBars == {[open |-> 100, close |-> 102], [open |-> 102, close |-> 100]}
RunFeatureRows == {[fast |-> Some(105), slow |-> Some(100)],
                   [fast |-> Some(100), slow |-> Some(105)],
                   [fast |-> NaN, slow |-> Some(100)]}

\* runner.py:120 len(X) != len(df)
LengthMismatch(len_X, len_df) == len_X # len_df

\* runner.py:149-157, the state of the replay
ReplayLocals ==
    [equity |-> StartingCapital, position |-> 0, entry_price |-> 0,
     trades |-> <<>>, equity_records |-> <<>>, target_position |-> 0,
     current_trade_entry_ts |-> None, i |-> 0]

\* runner.py:177-223, the execution phase at the open of bar i
RunExecute(l, bar_ts, current_open) ==
    IF l.position = l.target_position THEN l
    ELSE LET closes == /\ l.position # 0
                       /\ \/ (l.position > 0 /\ l.target_position <= 0)
                          \/ (l.position < 0 /\ l.target_position >= 0)
             pnl == IF l.position > 0
                    THEN (current_open - l.entry_price) * Abs(l.position)
                    ELSE (l.entry_price - current_open) * Abs(l.position)
             trade == [entry_ts |-> l.current_trade_entry_ts, exit_ts |-> bar_ts,
                       side |-> IF l.position > 0 THEN "long" ELSE "short",
                       qty |-> Abs(l.position), entry_price |-> l.entry_price,
                       exit_price |-> current_open, pnl |-> pnl]
             l1 == IF closes
                   THEN [l EXCEPT !.equity = @ + pnl, !.trades = Append(@, trade),
                                  !.position = 0, !.entry_price = 0]
                   ELSE l
         IN IF l1.target_position # 0 /\ l1.position = 0
            THEN [l1 EXCEPT !.position = l1.target_position, !.entry_price = current_open,
                            !.current_trade_entry_ts = Some(bar_ts)]
            ELSE l1

\* runner.py:165-264, one iteration of the loop
RunIteration(l, steps, bar_row, features) ==
    LET bar_ts == l.i + 1
        l1 == RunExecute(l, bar_ts, bar_row.open)
        unrealized_pnl == IF l1.position > 0
                          THEN (bar_row.close - l1.entry_price) * Abs(l1.position)
                          ELSE IF l1.position < 0
                          THEN (l1.entry_price - bar_row.close) * Abs(l1.position)
                          ELSE 0
        current_equity == l1.equity + unrealized_pnl
        l2 == [l1 EXCEPT !.equity_records =
                 Append(@, [timestamp |-> bar_ts, equity |-> current_equity,
                            position |-> l1.position, unrealized_pnl |-> unrealized_pnl,
                            realized_pnl |-> l1.equity - StartingCapital])]
        ctx == [bar_index |-> l.i, features |-> features, position |-> l1.position]
    IN IF l.i = steps - 1
       THEN [l2 EXCEPT !.i = @ + 1]
       ELSE [l2 EXCEPT !.target_position =
                           MACrossoverStrategy_on_bar(RunStrategy, ctx).target_position,
                       !.i = @ + 1]

\* runner.py:78-102: the CSV files of the snapshot directory are read; with
\* no file there the run ends in sys.exit(1). The files have the bar
\* columns and a volume column, a tick or real volume in its place, or none
\* of them; tick_volume, else real_volume, stands in for a missing volume
\* (lines 94-102).
LoadData ==
    /\ run.pc = "load"
    /\ LET csv_columns ==
               {({"time"} \cup OHLC) \cup v :
                   v \in {{}, {"volume"}, {"tick_volume"}, {"real_volume"},
                          {"tick_volume", "real_volume"}}}
           aliased(columns) ==
               IF "volume" \notin columns
                  /\ ("tick_volume" \in columns \/ "real_volume" \in columns)
               THEN columns \cup {"volume"}
               ELSE columns
       IN \/ run' = [run EXCEPT !.pc = "exited",
                                !.outcome = Some(Raises("SystemExit", <<"code", 1>>))]
          \/ \E n \in 0..MaxSteps, valid \in BOOLEAN, columns \in csv_columns :
                run' = [run EXCEPT !.pc = "validate", !.len_df = Some(n),
                                   !.valid = Some(valid),
                                   !.columns = Some(aliased(columns))]
    /\ UNCHANGED <<riskVars, engineVars, trackerVars, builderVars, orderVars,
                   strategyVars, registryVars, barsVars,
                   pipelineVars>>

\* runner.py:105 validate_bars(df)
ValidateData ==
    /\ run.pc = "validate"
    /\ run' = IF run.valid[1]
              THEN [run EXCEPT !.pc = "transform"]
              ELSE [run EXCEPT !.pc = "raised",
                               !.outcome = Some(Raises("ValueError", <<"validate_bars">>))]
    /\ UNCHANGED <<riskVars, engineVars, trackerVars, builderVars, orderVars,
                   strategyVars, registryVars, barsVars,
                   pipelineVars>>

\* runner.py:110-117 X = pipeline.transform(df): transform refuses a frame
\* without the OHLCV columns (pipeline.py:38); otherwise the rows of what
\* the pipeline returns
ComputeFeatures ==
    /\ run.pc = "transform"
    /\ LET checked == validate_ohlcv([columns |-> run.columns[1]])
       IN IF "raises" \in DOMAIN checked
          THEN run' = [run EXCEPT !.pc = "raised", !.outcome = Some(checked)]
          ELSE \E n \in 0..MaxSteps : run' = [run EXCEPT !.pc = "verify", !.len_X = Some(n)]
    /\ UNCHANGED <<riskVars, engineVars, trackerVars, builderVars, orderVars,
                   strategyVars, registryVars, barsVars,
                   pipelineVars>>

\* runner.py:120-121
VerifyAlignment ==
    /\ run.pc = "verify"
    /\ run' = IF LengthMismatch(run.len_X[1], run.len_df[1])
              THEN [run EXCEPT !.pc = "raised",
                               !.outcome = Some(Raises("ValueError",
                                                       <<"Feature DataFrame length mismatch">>))]
              ELSE [run EXCEPT !.pc = "iterator"]
    /\ UNCHANGED <<riskVars, engineVars, trackerVars, builderVars, orderVars,
                   strategyVars, registryVars, barsVars,
                   pipelineVars>>

\* runner.py:134-157: BarIterator(df) (IndexError on an empty frame,
\* bar_iterator.py:66); X = pipeline.transform(clean_df), which replaces the
\* matrix that was checked and is not checked itself (line 138; the clean
\* frame has the rows and columns of the one transform accepted); the
\* strategy and the state of the replay
StartReplay ==
    /\ run.pc = "iterator"
    /\ IF run.len_df[1] = 0
       THEN run' = [run EXCEPT !.pc = "raised",
                               !.outcome = Some(Raises("IndexError",
                                                       <<"iloc[0] on an empty column">>))]
       ELSE \E n \in 0..MaxSteps :
               run' = [run EXCEPT !.pc = "replay", !.len_X = Some(n),
                                  !.locals = Some(ReplayLocals)]
    /\ UNCHANGED <<riskVars, engineVars, trackerVars, builderVars, orderVars,
                   strategyVars, registryVars, barsVars,
                   pipelineVars>>

\* runner.py:249-256: X.iloc[i] is read on every bar but the last, and the
\* matrix has no row i
FeaturesMissing(i, steps, len_X) == i # steps - 1 /\ i >= len_X

\* the IndexError of X.iloc[i] ends run_backtest: its locals are gone and
\* no artifact has been written
RunRaised(r) ==
    [r EXCEPT !.pc = "raised", !.locals = None,
              !.outcome = Some(Raises("IndexError",
                                      <<"single positional indexer is out-of-bounds">>))]

\* runner.py:165-264: the next bar of the loop
ReplayStep ==
    /\ run.pc = "replay"
    /\ IF FeaturesMissing(run.locals[1].i, run.len_df[1], run.len_X[1])
       THEN run' = RunRaised(run)
       ELSE \E bar_row \in RunBars, features \in RunFeatureRows :
               LET l == RunIteration(run.locals[1], run.len_df[1], bar_row, features)
               IN run' = [run EXCEPT !.locals = Some(l),
                                     !.pc = IF l.i = run.len_df[1] THEN "done" ELSE "replay"]
    /\ UNCHANGED <<riskVars, engineVars, trackerVars, builderVars, orderVars,
                   strategyVars, registryVars, barsVars,
                   pipelineVars>>

Init_Run ==
    run = [pc |-> "load", len_df |-> None, valid |-> None, columns |-> None, len_X |-> None,
           locals |-> None, outcome |-> None]

----------------------------------------------------------------------------
\* strategy/adx_filtered_crossover.py: build(params)

\* params: a dict; a key left out takes the default of params.get
BuildParams ==
    {DictMerge(DictMerge(DictMerge(f, sl), DictMerge(t, p)), th) :
        f \in {EmptyDict} \cup {[fast_period |-> n] : n \in {5, 10}},
        sl \in {EmptyDict} \cup {[slow_period |-> n] : n \in {20, 30}},
        t \in {EmptyDict} \cup {[indicator_type |-> x] : x \in {"sma", "ema", "wma"}},
        p \in {EmptyDict} \cup {[adx_period |-> n] : n \in {14, 30}},
        th \in {EmptyDict} \cup {[adx_threshold |-> n] : n \in {25, 30}}}

\* params.get(key, default)
DictGet(d, key, default) == IF key \in DOMAIN d THEN d[key] ELSE default

\* mutant: the warmup is the slow period alone
build_SlowWarmup(params) ==
    IF "fast_period" \notin DOMAIN params THEN Raises("KeyError", <<"fast_period">>)
    ELSE IF "slow_period" \notin DOMAIN params THEN Raises("KeyError", <<"slow_period">>)
    ELSE LET fast_period == params["fast_period"]
             slow_period == params["slow_period"]
             indicator_type == DictGet(params, "indicator_type", "sma")
             adx_period == DictGet(params, "adx_period", 14)
             adx_threshold == DictGet(params, "adx_threshold", 25)
             fast_indicator == IF indicator_type = "ema" THEN EMA(fast_period, "close")
                                                         ELSE SMA(fast_period, "close")
             slow_indicator == IF indicator_type = "ema" THEN EMA(slow_period, "close")
                                                         ELSE SMA(slow_period, "close")
             adx_indicator == ADX(adx_period)
         IN Returns([strategy |->
                        [_name |-> "adx_filtered_crossover",
                         fast_col |-> Indicator_name(fast_indicator),
                         slow_col |-> Indicator_name(slow_indicator),
                         adx_col |-> Indicator_name(adx_indicator),
                         adx_threshold |-> adx_threshold,
                         _warmup_bars |-> slow_period],
                     specs |-> <<FeatureSpec(fast_indicator, <<>>, None),
                                 FeatureSpec(slow_indicator, <<>>, None),
                                 FeatureSpec(adx_indicator, <<>>, None)>>])

\* build(params): the strategy and its feature specs
build(params) ==
    IF "fast_period" \notin DOMAIN params THEN Raises("KeyError", <<"fast_period">>)
    ELSE IF "slow_period" \notin DOMAIN params THEN Raises("KeyError", <<"slow_period">>)
    ELSE LET fast_period == params["fast_period"]
             slow_period == params["slow_period"]
             indicator_type == DictGet(params, "indicator_type", "sma")
             adx_period == DictGet(params, "adx_period", 14)
             adx_threshold == DictGet(params, "adx_threshold", 25)
             fast_indicator == IF indicator_type = "ema" THEN EMA(fast_period, "close")
                                                         ELSE SMA(fast_period, "close")
             slow_indicator == IF indicator_type = "ema" THEN EMA(slow_period, "close")
                                                         ELSE SMA(slow_period, "close")
             adx_indicator == ADX(adx_period)
         IN Returns([strategy |->
                        [_name |-> "adx_filtered_crossover",
                         fast_col |-> Indicator_name(fast_indicator),
                         slow_col |-> Indicator_name(slow_indicator),
                         adx_col |-> Indicator_name(adx_indicator),
                         adx_threshold |-> adx_threshold,
                         _warmup_bars |-> IF slow_period >= 2 * adx_period
                                          THEN slow_period ELSE 2 * adx_period],
                     specs |-> <<FeatureSpec(fast_indicator, <<>>, None),
                                 FeatureSpec(slow_indicator, <<>>, None),
                                 FeatureSpec(adx_indicator, <<>>, None)>>])

\* strategy, specs = build(params)
BuildCall ==
    /\ build_call = None
    /\ \E params \in BuildParams :
          build_call' = Some([params |-> params, outcome |-> build(params)])
    /\ UNCHANGED <<riskVars, engineVars, trackerVars, strategyVars, registryVars, barsVars,
                   pipelineVars, runVars, orderVars>>

\* engine/core.py: _execute_order called on its own, with targets and
\* positions of any size
OrderSizes == {-2, -1, 0, 1, 2}
OrderTimes == {isoformat(Ts(2024, 1, 1, 0)), isoformat(Ts(2024, 1, 1, 1))}

ExecuteOrderCall ==
    /\ order_call = None
    /\ \E target_position \in OrderSizes, position \in OrderSizes, entry_price \in Prices,
          bar_open \in Prices, entry_ts \in OrderTimes :
          LET bar_ts == isoformat(Ts(2024, 1, 2, 0))
              held_price == IF position = 0 THEN 0 ELSE entry_price
              held_ts == IF position = 0 THEN EmptyStr ELSE entry_ts
          IN order_call' = Some([target_position |-> target_position, position |-> position,
                                 entry_price |-> held_price, entry_ts |-> held_ts,
                                 bar_open |-> bar_open, bar_ts |-> bar_ts,
                                 result |-> _execute_order(target_position, position, held_price,
                                                           held_ts, bar_open, bar_ts)])
    /\ UNCHANGED <<riskVars, engineVars, trackerVars, strategyVars, registryVars, barsVars,
                   pipelineVars, runVars, builderVars>>

----------------------------------------------------------------------------
\* The replay: bars arrive in strictly increasing time order (validate_bars
\* rejects duplicates and disorder), one process_bar call per bar, is_last on
\* the final one.

LastTs == equity_records[Len(equity_records)].timestamp

Chronological(bar_row) ==
    IF equity_records = <<>> THEN TRUE
    ELSE \E t \in Timestamps : isoformat(t) = LastTs /\ TsLT(t, bar_row.time)

ReplayBar ==
    /\ ~done
    /\ Len(equity_records) < MaxBars
    /\ \E bar_row \in Bars, sig \in Signals, is_last \in BOOLEAN :
          /\ Chronological(bar_row)
          /\ (Len(equity_records) = MaxBars - 1 => is_last)
          /\ process_bar(bar_row, sig, is_last)
          /\ done' = is_last
    /\ UNCHANGED <<trackerVars, callVars>>

\* The same replay over the bars of an intraday feed: three bars of the last
\* day of a month and two of the next day
IntradayTimestamps == {Ts(2024, 1, 31, 0), Ts(2024, 1, 31, 1), Ts(2024, 1, 31, 2),
                       Ts(2024, 2, 1, 0), Ts(2024, 2, 1, 1)}

IntradayBars == [time : IntradayTimestamps, open : Prices, close : Prices]

ReplayIntradayBar ==
    /\ ~done
    /\ Len(equity_records) < MaxBars
    /\ \E bar_row \in IntradayBars, sig \in Signals, is_last \in BOOLEAN :
          /\ IF equity_records = <<>> THEN TRUE
             ELSE \E t \in IntradayTimestamps : isoformat(t) = LastTs /\ TsLT(t, bar_row.time)
          /\ (Len(equity_records) = MaxBars - 1 => is_last)
          /\ process_bar(bar_row, sig, is_last)
          /\ done' = is_last
    /\ UNCHANGED <<trackerVars, callVars>>

\* run_backtest's loop and a TradingEngine fed the same bar: bar i of the
\* loop (runner.py:165-264) and process_bar(bar_row, features_row, i,
\* is_last = (i == steps - 1)); the engine's strategy signals the direction
\* whose target, at position_size 1, is the one the loop's strategy decided.
LockstepBar ==
    /\ run.pc = "replay"
    /\ ~done
    /\ IF FeaturesMissing(run.locals[1].i, run.len_df[1], run.len_X[1])
       THEN /\ run' = RunRaised(run)
            /\ UNCHANGED <<riskVars, engineVars>>
       ELSE \E bar_row \in Bars, features \in RunFeatureRows, sig \in Signals :
               LET steps == run.len_df[1]
                   is_last == run.locals[1].i = steps - 1
                   l == RunIteration(run.locals[1], steps, bar_row, features)
               IN /\ Chronological(bar_row)
                  /\ (~is_last => sig.direction * PositionSize = l.target_position)
                  /\ run' = [run EXCEPT !.locals = Some(l),
                                        !.pc = IF l.i = steps THEN "done" ELSE "replay"]
                  /\ process_bar(bar_row, sig, is_last)
                  /\ done' = is_last
    /\ UNCHANGED <<trackerVars, builderVars, orderVars, strategyVars, registryVars, barsVars,
                   pipelineVars>>

\* The risk manager driven on its own, as its unit tests drive it
UpdateCall ==
    /\ n_updates < MaxUpdates
    /\ \E bar_ts \in Timestamps, current_equity \in Equities : update(bar_ts, current_equity)
    /\ UNCHANGED <<engineVars, trackerVars, callVars>>

\* DrawdownTracker(StartingCapital) driven on its own: one update call
TrackerCall ==
    /\ Len(tracker_equity) < MaxFeed
    /\ \E current_equity \in TrackerEquities :
          LET state == TrackerUpdate(_peak_equity, _max_drawdown_pct, current_equity)
          IN /\ _peak_equity' = state.peak_equity
             /\ _max_drawdown_pct' = state.max_drawdown_pct
             /\ tracker_equity' = Append(tracker_equity, current_equity)
             /\ tracker_states' = Append(tracker_states, state)
    /\ UNCHANGED <<_cfg, _risk_halted, _risk_halted_at, _daily_paused, _current_day,
                   _day_start_equity, _daily_halts, _monthly_paused, _current_month,
                   _month_start_equity, _monthly_halts, _last_equity_close, risk_action,
                   n_updates, update_bar_ts, engineVars, dd_call, callVars>>

\* one call of the free function
ComputeCall ==
    /\ \E peak \in Peaks, current \in Currents :
          dd_call' = Some([peak |-> peak, current |-> current,
                           result |-> compute_drawdown_pct(peak, current)])
    /\ UNCHANGED <<riskVars, engineVars, tracker_equity, tracker_states, callVars>>

Init_Tracker ==
    /\ tracker_equity = <<>>
    /\ tracker_states = <<>>
    /\ dd_call = None

\* no component has been called on its own yet
Init_Calls ==
    /\ strategy_call = None
    /\ Init_Registry
    /\ Init_Bars
    /\ Init_Pipeline
    /\ Init_Run
    /\ build_call = None
    /\ order_call = None

Init == Init_RiskManager /\ Init_TradingEngine /\ Init_Tracker /\ Init_Calls

Next == ReplayBar

Spec == Init /\ [][Next]_vars

NextRisk == UpdateCall

SpecRisk == Init /\ [][NextRisk]_vars

NextIntraday == ReplayIntradayBar

SpecIntraday == Init /\ [][NextIntraday]_vars

\* the drawdown module on its own (no limits are involved)
NoLimits ==
    /\ _cfg.max_drawdown_pct = None
    /\ _cfg.daily_dd_limit = None
    /\ _cfg.monthly_dd_limit = None

InitTracker == Init /\ NoLimits

NextTracker == TrackerCall \/ ComputeCall

SpecTracker == InitTracker /\ [][NextTracker]_vars

\* a component called on its own: the engine and the risk manager stay as constructed
InitCalls == Init /\ NoLimits

NextStrategy == OnBarCall

SpecStrategy == InitCalls /\ [][NextStrategy]_vars

NextRegistry == RegisterCall \/ BuildStrategyCall

SpecRegistry == InitCalls /\ [][NextRegistry]_vars

NextBars == NewFrame \/ AppendRow \/ ValidateCall \/ BarIteratorCall

SpecBars == InitCalls /\ [][NextBars]_vars

NextPipeline == AppendSpec \/ ReadOhlcv \/ TransformCall

SpecPipeline == InitCalls /\ [][NextPipeline]_vars

NextRun == LoadData \/ ValidateData \/ ComputeFeatures \/ VerifyAlignment \/ StartReplay
              \/ ReplayStep

SpecRun == InitCalls /\ [][NextRun]_vars

NextBuilder == BuildCall

SpecBuilder == InitCalls /\ [][NextBuilder]_vars

NextOrder == ExecuteOrderCall

SpecOrder == InitCalls /\ [][NextOrder]_vars

NextLockstep ==
    \/ LoadData
    \/ ValidateData
    \/ ComputeFeatures
    \/ VerifyAlignment
    \/ StartReplay
    \/ LockstepBar

SpecLockstep == InitCalls /\ [][NextLockstep]_vars

----------------------------------------------------------------------------
\* Properties

LastRec == equity_records[Len(equity_records)]
Pct(n) == [n |-> n, d |-> 1, err |-> 0]

\* the target resolved from the intent that was pending before the step
PendingTarget == IF _pending_intent = None THEN _position ELSE _pending_intent[1].target_position

\* C1 (execution lag): in every process_bar step the position held and recorded
\* for the bar, the entry price and the fills are fixed by the state before the
\* step (the intent stored on the previous bar) and the bar's open; the signal
\* produced in the step only shows up in the intent left pending for the next bar.
C1_ExecutionLag ==
    [][LET r == equity_records'[Len(equity_records')]
       IN /\ r.position = PendingTarget
          /\ _position' = PendingTarget
          /\ Len(all_fills') - Len(all_fills)
                = (IF _position # 0 /\ PendingTarget # _position THEN 1 ELSE 0)
          /\ (PendingTarget = _position =>
                 _entry_price' = _entry_price /\ _entry_ts' = _entry_ts)
          /\ (PendingTarget # _position =>
                 _entry_price' = (IF PendingTarget = 0 THEN 0 ELSE bar'[1].open))
          /\ (signal' # None =>
                 _pending_intent'[1].target_position
                    = (IF risk_action'.flatten THEN 0 ELSE signal'[1].direction * PositionSize))
      ]_vars

\* the bar's position follows the previous bar's long intent although the
\* signal of this very bar is short; nothing has been closed yet
C1_Witness ==
    /\ Len(equity_records) >= 2
    /\ equity_records[Len(equity_records) - 1].position = 0
    /\ LastRec.position = PositionSize
    /\ signal # None /\ signal[1].direction = -1
    /\ _pending_intent # None /\ _pending_intent[1].target_position = -PositionSize
    /\ all_fills = <<>>

\* the update that has just returned saw a global drawdown at or above the limit
GlobalObserved ==
    /\ _cfg.max_drawdown_pct # None
    /\ _peak_equity > 0
    /\ (_peak_equity - _last_equity_close) * 100 >= _cfg.max_drawdown_pct[1] * _peak_equity

\* C2 (global halt is permanent): the update call that observes global drawdown
\* >= max_drawdown_pct and every update call after it return flatten = halted =
\* TRUE, whatever the equity and the timestamp.
C2_GlobalHaltPermanent ==
    [][(_risk_halted \/ GlobalObserved') =>
          (_risk_halted' /\ risk_action'.flatten /\ risk_action'.halted)]_vars

\* halted at 90 under a peak of 100, then a recovery to a new peak of 105 in
\* another month: still halted and flattening
C2_Witness ==
    /\ _risk_halted
    /\ _max_drawdown_pct = Pct(10)
    /\ _peak_equity = 105 /\ _last_equity_close = 105
    /\ _current_month # <<_risk_halted_at[1], _risk_halted_at[2]>>
    /\ risk_action.flatten /\ risk_action.halted

\* C3 (flatten latency): once the global halt has fired on an earlier bar, every
\* later bar is executed, held and recorded flat and leaves a flat intent.
C3_FlatAfterHalt ==
    [][_risk_halted =>
          /\ _position' = 0
          /\ equity_records'[Len(equity_records')].position = 0
          /\ (_pending_intent' # None => _pending_intent'[1].target_position = 0)]_vars

\* the halt fired on the previous bar with a position open; this bar is flat,
\* the strategy signals long and the stored intent is flat all the same
C3_Witness ==
    /\ Len(equity_records) >= 3
    /\ _risk_halted
    /\ _risk_halted_at = equity_records[Len(equity_records) - 1].timestamp
    /\ equity_records[Len(equity_records) - 1].position # 0
    /\ LastRec.position = 0
    /\ signal # None /\ signal[1].direction = 1
    /\ _pending_intent[1].target_position = 0

\* C4 (risk update once per bar, on mark-to-market equity): after every
\* process_bar call, the last one included, update has been called once per
\* bar, its equity argument was realized equity after the execution step plus
\* the unrealized PnL at this bar's close, the record holds that same equity,
\* and the intent left pending obeys this bar's risk action.
C4_RiskUpdateOnMTM ==
    /\ n_updates = Len(equity_records)
    /\ equity_records # <<>> =>
          LET close == bar[1].close
              unrealized == IF _position > 0 THEN (close - _entry_price) * _position
                            ELSE IF _position < 0 THEN (_entry_price - close) * (-_position)
                            ELSE 0
          IN /\ _last_equity_close = _equity + unrealized
             /\ LastRec.equity = _last_equity_close
             /\ LastRec.unrealized_pnl = unrealized
             /\ _current_day = <<bar[1].time.year, bar[1].time.month, bar[1].time.day>>
             /\ (risk_action.flatten /\ _pending_intent # None =>
                    _pending_intent[1].target_position = 0)

\* the last bar of a run, with an open position carrying unrealized PnL
C4_Witness ==
    /\ done
    /\ Len(equity_records) >= 2
    /\ _position # 0
    /\ LastRec.unrealized_pnl # 0
    /\ _last_equity_close # _equity
    /\ n_updates = Len(equity_records)

\* C5 (terminal bar): the process_bar call with is_last executes the pending
\* intent, marks to market, updates risk and appends the record, but calls no
\* strategy and leaves no pending intent.
C5_TerminalBar ==
    [][done' =>
          /\ Len(equity_records') = Len(equity_records) + 1
          /\ n_updates' = n_updates + 1
          /\ _position' = PendingTarget
          /\ equity_records'[Len(equity_records')].equity = _last_equity_close'
          /\ signal' = None
          /\ _pending_intent' = None]_vars

\* a run whose last bar closed a position at its open
C5_Witness ==
    /\ done
    /\ Len(equity_records) >= 3
    /\ all_fills # <<>>
    /\ all_fills[Len(all_fills)].exit_ts = LastRec.timestamp
    /\ _pending_intent = None /\ signal = None

\* the update that has just returned saw a drawdown from the baseline at or
\* above the limit
PeriodObserved(limit, baseline, equity) ==
    /\ limit # None
    /\ baseline > 0
    /\ (baseline - equity) * 100 >= limit[1] * baseline

\* C6 (daily pause): an update that is not already paused for its date and sees
\* a drawdown from the day-start baseline >= daily_dd_limit sets the pause,
\* counts one daily halt and returns flatten; every later update on the same
\* date returns flatten.
C6_DailyPause ==
    [][/\ (/\ ~_daily_paused \/ _current_day' # _current_day
           /\ PeriodObserved(_cfg.daily_dd_limit, _day_start_equity', _last_equity_close'))
          => (_daily_paused' /\ _daily_halts' = _daily_halts + 1 /\ risk_action'.flatten)
       /\ (_daily_paused /\ _current_day' = _current_day)
          => (_daily_paused' /\ _daily_halts' = _daily_halts /\ risk_action'.flatten)
      ]_vars

\* paused earlier today; this update is back at or above the baseline and is
\* flattened by the daily pause alone
C6_Witness ==
    /\ _daily_paused /\ _daily_halts = 1
    /\ _last_equity_close >= _day_start_equity
    /\ ~_risk_halted /\ ~_monthly_paused
    /\ risk_action.flatten /\ risk_action.reason = EmptyStr

\* C7 (daily reset, MTM baseline): on an update whose date differs from the
\* tracked day the baseline becomes the previous update's equity (the starting
\* capital on the first update) and the pause is cleared: the update pauses
\* only if it breaches the limit from that baseline itself, and at exactly the
\* baseline, with no global halt or monthly pause, it returns flatten = FALSE.
C7_DailyReset ==
    [][_current_day' # _current_day =>
          /\ _day_start_equity' = _last_equity_close
          /\ (n_updates = 0 => _day_start_equity' = StartingCapital)
          /\ _daily_paused'
                = PeriodObserved(_cfg.daily_dd_limit, _day_start_equity', _last_equity_close')
          /\ (_daily_paused' => risk_action'.flatten /\ _daily_halts' = _daily_halts + 1)
          /\ (_last_equity_close' = _day_start_equity' /\ ~_risk_halted' /\ ~_monthly_paused'
                => ~risk_action'.flatten)]_vars

\* the first update paused the day at 95; the second, on another date, is at
\* the new baseline 95 and does not flatten
C7_Witness ==
    /\ n_updates = 2
    /\ _daily_halts = 1 /\ ~_daily_paused
    /\ _day_start_equity = 95 /\ _last_equity_close = 95
    /\ ~risk_action.flatten

\* C8 (monthly pause): as the daily one with (year, month) for the date: it
\* triggers at drawdown >= monthly_dd_limit from the month-start baseline,
\* holds for every later update of the same (year, month), day boundaries
\* included, and is cleared on the first update of another (year, month),
\* whose baseline is the previous update's equity.
C8_MonthlyPause ==
    [][/\ (/\ ~_monthly_paused \/ _current_month' # _current_month
           /\ PeriodObserved(_cfg.monthly_dd_limit, _month_start_equity', _last_equity_close'))
          => (_monthly_paused' /\ _monthly_halts' = _monthly_halts + 1 /\ risk_action'.flatten)
       /\ (_monthly_paused /\ _current_month' = _current_month)
          => (_monthly_paused' /\ _monthly_halts' = _monthly_halts /\ risk_action'.flatten)
       /\ _current_month' # _current_month
          => /\ _month_start_equity' = _last_equity_close
             /\ _monthly_paused'
                   = PeriodObserved(_cfg.monthly_dd_limit, _month_start_equity', _last_equity_close')
       /\ _current_month' = _current_month
          => _month_start_equity' = _month_start_equity
      ]_vars

\* paused on the first update; the second is on another day of the same month
\* (the daily baseline moved, the monthly one did not), back at the monthly
\* baseline and still flattened
C8_Witness ==
    /\ n_updates = 2
    /\ _monthly_paused /\ _monthly_halts = 1
    /\ _day_start_equity < _month_start_equity
    /\ _last_equity_close >= _month_start_equity
    /\ ~_risk_halted /\ ~_daily_paused
    /\ risk_action.flatten

\* C9 (None disables): with no limit configured no update ever flattens or
\* halts, and no halt is counted.
C9_NoLimitsNeverFlatten ==
    NoLimits =>
        /\ ~risk_action.flatten /\ ~risk_action.halted
        /\ ~_risk_halted /\ ~_daily_paused /\ ~_monthly_paused
        /\ _daily_halts = 0 /\ _monthly_halts = 0

\* no limits, equity fell to zero (a 100 % drawdown was tracked), nothing fired
C9_Witness ==
    /\ NoLimits
    /\ n_updates >= 2
    /\ _max_drawdown_pct = Pct(100)
    /\ ~risk_action.flatten /\ ~risk_action.halted

\* C10 (halted is the global halt only): halted implies flatten, halted equals
\* the risk_halted metric, a halt needs a configured global limit reached by the
\* tracked drawdown, and a daily or monthly pause without it gives flatten
\* with halted = FALSE.
C10_HaltedOnlyGlobal ==
    /\ risk_action.halted => risk_action.flatten
    /\ risk_action.halted = metrics.risk_halted
    /\ risk_action.halted =>
          /\ _cfg.max_drawdown_pct # None
          /\ RatGE(_max_drawdown_pct, Pct(_cfg.max_drawdown_pct[1]))
    /\ ((_daily_paused \/ _monthly_paused) /\ ~_risk_halted) =>
          (risk_action.flatten /\ ~risk_action.halted)

\* a daily pause under a configured global limit that has not been reached
C10_Witness ==
    /\ _cfg.max_drawdown_pct # None
    /\ _daily_paused /\ ~_monthly_paused /\ ~_risk_halted
    /\ risk_action.flatten /\ ~risk_action.halted
    /\ metrics.risk_halted = FALSE /\ metrics.daily_halts = 1

\* C11 (inclusive thresholds): each of the three checks, when it is evaluated
\* (not yet halted / not paused for the period, limit configured, baseline
\* positive), fires exactly when the drawdown percentage is >= its limit: at
\* the limit it fires, strictly below it does not.  Firing is seen in the
\* halt flag, the pause flags and the halt counters.
C11_InclusiveAtLimit ==
    [][LET eq == _last_equity_close'
           gl == _cfg.max_drawdown_pct
           dl == _cfg.daily_dd_limit
           ml == _cfg.monthly_dd_limit
       IN /\ (~_risk_halted /\ gl # None /\ _peak_equity' > 0) =>
                 /\ (_peak_equity' - eq) * 100 = gl[1] * _peak_equity' => _risk_halted'
                 /\ (_peak_equity' - eq) * 100 > gl[1] * _peak_equity' => _risk_halted'
                 /\ (_peak_equity' - eq) * 100 < gl[1] * _peak_equity' => ~_risk_halted'
          /\ ((~_daily_paused \/ _current_day' # _current_day) /\ dl # None
                 /\ _day_start_equity' > 0) =>
                 /\ (_day_start_equity' - eq) * 100 = dl[1] * _day_start_equity'
                       => (_daily_paused' /\ _daily_halts' = _daily_halts + 1)
                 /\ (_day_start_equity' - eq) * 100 > dl[1] * _day_start_equity'
                       => (_daily_paused' /\ _daily_halts' = _daily_halts + 1)
                 /\ (_day_start_equity' - eq) * 100 < dl[1] * _day_start_equity'
                       => (~_daily_paused' /\ _daily_halts' = _daily_halts)
          /\ ((~_monthly_paused \/ _current_month' # _current_month) /\ ml # None
                 /\ _month_start_equity' > 0) =>
                 /\ (_month_start_equity' - eq) * 100 = ml[1] * _month_start_equity'
                       => (_monthly_paused' /\ _monthly_halts' = _monthly_halts + 1)
                 /\ (_month_start_equity' - eq) * 100 > ml[1] * _month_start_equity'
                       => (_monthly_paused' /\ _monthly_halts' = _monthly_halts + 1)
                 /\ (_month_start_equity' - eq) * 100 < ml[1] * _month_start_equity'
                       => (~_monthly_paused' /\ _monthly_halts' = _monthly_halts)
      ]_vars

\* the first update was at exactly the daily and monthly limits (100 -> 95,
\* 5.00 % against 5) and below the global one; the second, at exactly the
\* global limit (100 -> 90, 10.00 % against 10), halted
C11_Witness ==
    /\ n_updates = 2
    /\ _daily_halts = 1 /\ _monthly_halts = 1
    /\ _day_start_equity = StartingCapital /\ _month_start_equity = StartingCapital
    /\ _risk_halted
    /\ _max_drawdown_pct = Pct(_cfg.max_drawdown_pct[1])
    /\ risk_action.reason = <<Fragment("Global DD", _max_drawdown_pct, _cfg.max_drawdown_pct)>>

\* C12 (drawdown monotonicity): after any sequence of DrawdownTracker.update
\* calls, each returned peak_equity is the maximum of the initial equity and
\* the equities passed so far, each returned max_drawdown_pct is the maximum of
\* the current_drawdown_pct values returned so far, both never decrease from
\* one call to the next, every current_drawdown_pct is >= 0, and the tracker's
\* fields are those of the last state returned.
C12_TrackerMonotone ==
    /\ Len(tracker_states) = Len(tracker_equity)
    /\ \A i \in 1..Len(tracker_states) :
          LET s == tracker_states[i]
              seen == {StartingCapital} \cup {tracker_equity[j] : j \in 1..i}
              dds == {tracker_states[j].current_drawdown_pct : j \in 1..i}
          IN /\ s.peak_equity \in seen
             /\ \A e \in seen : e <= s.peak_equity
             /\ s.max_drawdown_pct \in dds
             /\ \A dd \in dds : dd.n * s.max_drawdown_pct.d <= s.max_drawdown_pct.n * dd.d
             /\ s.current_drawdown_pct.n >= 0 /\ s.current_drawdown_pct.d > 0
             /\ i > 1 =>
                   LET p == tracker_states[i - 1]
                   IN /\ p.peak_equity <= s.peak_equity
                      /\ p.max_drawdown_pct.n * s.max_drawdown_pct.d
                            <= s.max_drawdown_pct.n * p.max_drawdown_pct.d
    /\ tracker_states # <<>> =>
          /\ _peak_equity = tracker_states[Len(tracker_states)].peak_equity
          /\ _max_drawdown_pct = tracker_states[Len(tracker_states)].max_drawdown_pct

\* four calls: the peak rose twice, the maximum drawdown rose from a positive
\* value to a larger one, and the last call is a new high with drawdown 0
C12_Witness ==
    /\ Len(tracker_states) = 4
    /\ tracker_states[1].peak_equity < tracker_states[2].peak_equity
    /\ tracker_states[2].peak_equity < tracker_states[4].peak_equity
    /\ tracker_states[1].max_drawdown_pct.n > 0
    /\ tracker_states[1].max_drawdown_pct.n * tracker_states[3].max_drawdown_pct.d
          < tracker_states[3].max_drawdown_pct.n * tracker_states[1].max_drawdown_pct.d
    /\ tracker_states[4].current_drawdown_pct = Zero
    /\ tracker_states[4].max_drawdown_pct = tracker_states[3].max_drawdown_pct

\* C13 (drawdown formula and the literal sequence): compute_drawdown_pct(peak,
\* current) is (peak - current) / peak * 100 when peak > 0 and current < peak
\* and 0 when peak <= 0 or current >= peak; a tracker started at 100 and fed
\* 100, 120, 90, 130 returns the peaks 100, 120, 120, 130, the drawdown 25 at
\* index 2 and 0 at index 3, and the maximum drawdown 25.
C13_DrawdownFormula ==
    /\ dd_call # None =>
          LET c == dd_call[1]
          IN IF c.peak > 0 /\ c.current < c.peak
             THEN /\ c.result.d > 0
                  /\ c.result.n * c.peak = (c.peak - c.current) * 100 * c.result.d
             ELSE c.result = Zero
    /\ \A k \in 1..Len(tracker_equity) :
          tracker_equity = SubSeq(<<100, 120, 90, 130>>, 1, k) =>
             /\ [i \in 1..k |-> tracker_states[i].peak_equity]
                   = SubSeq(<<100, 120, 120, 130>>, 1, k)
             /\ k >= 3 => /\ tracker_states[3].current_drawdown_pct = Pct(25)
                          /\ tracker_states[3].max_drawdown_pct = Pct(25)
             /\ k >= 4 => /\ tracker_states[4].current_drawdown_pct = Zero
                          /\ tracker_states[4].max_drawdown_pct = Pct(25)
                          /\ _max_drawdown_pct = Pct(25)

\* the whole literal sequence has been fed, and the free function has been
\* called with a current value below a positive peak
C13_Witness ==
    /\ tracker_equity = <<100, 120, 90, 130>>
    /\ _peak_equity = 130
    /\ dd_call = Some([peak |-> 100, current |-> 80, result |-> Pct(20)])

\* the maximum drawdown of an equity series, recomputed from the series alone
\* (test_drawdown_correctness.py:26-52): the running peak starts at the first
\* equity, the drawdown of a point is (peak - equity) / peak * 100 where the
\* peak is positive and 0 elsewhere; the result is the numerator and the
\* denominator of the largest one
RECURSIVE SeriesMaxDD(_, _, _, _, _)
SeriesMaxDD(equity, i, peak, n, d) ==
    IF i > Len(equity) THEN <<n, d>>
    ELSE LET peak1 == IF equity[i] > peak THEN equity[i] ELSE peak
             ddn == IF peak1 > 0 THEN (peak1 - equity[i]) * 100 ELSE 0
             ddd == IF peak1 > 0 THEN peak1 ELSE 1
         IN IF ddn * d > n * ddd
            THEN SeriesMaxDD(equity, i + 1, peak1, ddn, ddd)
            ELSE SeriesMaxDD(equity, i + 1, peak1, n, d)

RecordedEquity == [i \in 1..Len(equity_records) |-> equity_records[i].equity]

\* C14 (cross-validation of the two drawdown paths): in every engine run the
\* max_drawdown_pct of RiskManager.metrics() equals the maximum drawdown
\* recomputed from the recorded equity series alone, with the running peak
\* started at the first recorded equity.
C14_CrossValidation ==
    equity_records # <<>> =>
        LET r == SeriesMaxDD(RecordedEquity, 1, RecordedEquity[1], 0, 1)
        IN /\ metrics.max_drawdown_pct.n * r[2] = r[1] * metrics.max_drawdown_pct.d
           /\ RecordedEquity[1] = StartingCapital

\* a finished run whose equity fell below an earlier peak above the starting
\* capital, rose again afterwards, and whose last bar is not the trough
C14_Witness ==
    /\ done
    /\ Len(equity_records) = MaxBars
    /\ _peak_equity > StartingCapital
    /\ _max_drawdown_pct # Zero
    /\ \E i \in 2..Len(equity_records) :
          /\ equity_records[i].equity < equity_records[i - 1].equity
          /\ equity_records[i].equity < LastRec.equity

\* the step executes a flip: the position is nonzero and the pending intent's
\* target has the opposite sign
Flip ==
    /\ _position # 0
    /\ _pending_intent # None
    /\ _pending_intent[1].target_position * _position < 0

\* C16 (flip, engine section): a step whose pending target has the opposite
\* sign to the nonzero position appends exactly one Fill, the close of the
\* whole old position at the bar's open, and leaves position = target, entry
\* price = the bar's open, entry timestamp = the bar's timestamp.
C16_FlipClosesAndReopens ==
    [][Flip =>
          LET f == all_fills'[Len(all_fills')]
          IN /\ Len(all_fills') = Len(all_fills) + 1
             /\ f.exit_price = bar'[1].open
             /\ f.exit_ts = isoformat(bar'[1].time)
             /\ f.qty = Abs(_position)
             /\ f.entry_price = _entry_price /\ f.entry_ts = _entry_ts
             /\ _position' = _pending_intent[1].target_position
             /\ _entry_price' = bar'[1].open
             /\ _entry_ts' = isoformat(bar'[1].time)
      ]_vars

\* the latest bar flipped long to short: it is recorded short, the long leg
\* was closed on it and the short leg was entered on it at its open
C16_Witness ==
    /\ Len(equity_records) >= 3
    /\ equity_records[Len(equity_records) - 1].position = PositionSize
    /\ LastRec.position = -PositionSize
    /\ all_fills # <<>>
    /\ all_fills[Len(all_fills)].side = "long"
    /\ all_fills[Len(all_fills)].exit_ts = LastRec.timestamp
    /\ _entry_ts = LastRec.timestamp
    /\ _entry_price = bar[1].open

\* C17 as stated (flip, data-model section): a flip closes the position and
\* does not reopen in the same execution call, so the position is zero after it.
C17_FlipLeavesFlat ==
    [][Flip => (Len(all_fills') = Len(all_fills) + 1 /\ _position' = 0)]_vars

\* C17 amended: a flip fully closes the position on the current bar (one Fill
\* for the whole old position, on its side) and reopens at the target in the
\* same execution call: after it the position is the nonzero target, of the
\* opposite sign, and the bar is recorded with it.
C17_FlipReopensSameCall ==
    [][Flip =>
          LET f == all_fills'[Len(all_fills')]
          IN /\ Len(all_fills') = Len(all_fills) + 1
             /\ f.qty = Abs(_position)
             /\ f.side = (IF _position > 0 THEN "long" ELSE "short")
             /\ _position' # 0
             /\ _position' * _position < 0
             /\ _position' = _pending_intent[1].target_position
             /\ equity_records'[Len(equity_records')].position = _position'
      ]_vars

\* the latest bar flipped short to long and the engine holds the long position
C17_Witness ==
    /\ Len(equity_records) >= 3
    /\ equity_records[Len(equity_records) - 1].position = -PositionSize
    /\ LastRec.position = PositionSize
    /\ _position = PositionSize
    /\ all_fills # <<>>
    /\ all_fills[Len(all_fills)].side = "short"
    /\ all_fills[Len(all_fills)].exit_ts = LastRec.timestamp

\* C18 (fill ledger): a step appends a Fill exactly when it closes a nonzero
\* position (pending target at or across zero), at most one, after the fills
\* already there, which stay as they are; the Fill has exit price = the bar's
\* open, qty = |closed position|, side by the sign of the closed position and
\* pnl = (exit - entry) * qty for long, (entry - exit) * qty for short; a step
\* whose target equals the position appends nothing and leaves position, entry
\* price, entry timestamp and realized equity as they were.
C18_FillLedger ==
    [][LET closing == \/ _position > 0 /\ PendingTarget <= 0
                      \/ _position < 0 /\ PendingTarget >= 0
           f == all_fills'[Len(all_fills')]
       IN /\ Len(all_fills') >= Len(all_fills)
          /\ Len(all_fills') <= Len(all_fills) + 1
          /\ SubSeq(all_fills', 1, Len(all_fills)) = all_fills
          /\ (Len(all_fills') > Len(all_fills)) = closing
          /\ closing =>
                /\ f.exit_price = bar'[1].open
                /\ f.exit_ts = isoformat(bar'[1].time)
                /\ f.entry_price = _entry_price
                /\ f.qty = Abs(_position)
                /\ f.side = (IF _position > 0 THEN "long" ELSE "short")
                /\ f.pnl = (IF _position > 0
                            THEN (bar'[1].open - _entry_price) * Abs(_position)
                            ELSE (_entry_price - bar'[1].open) * Abs(_position))
                /\ _equity' = _equity + f.pnl
          /\ PendingTarget = _position =>
                /\ all_fills' = all_fills
                /\ _position' = _position
                /\ _entry_price' = _entry_price
                /\ _entry_ts' = _entry_ts
                /\ _equity' = _equity
      ]_vars

\* the latest bar flattened a short position at a loss: the ledger ends with
\* that Fill, after an earlier one
C18_Witness ==
    /\ Len(all_fills) >= 2
    /\ all_fills[Len(all_fills)].side = "short"
    /\ all_fills[Len(all_fills)].pnl < 0
    /\ all_fills[Len(all_fills)].exit_ts = LastRec.timestamp
    /\ LastRec.position = 0
    /\ _equity = StartingCapital + all_fills[1].pnl + all_fills[2].pnl

\* C19 (one equity record per bar): every process_bar call appends exactly one
\* record, for its bar, after the records already there, which are never
\* changed; so after n calls there are n records (one per risk update), in
\* strictly increasing bar order.
C19_OneRecordPerBar ==
    [][/\ Len(equity_records') = Len(equity_records) + 1
       /\ SubSeq(equity_records', 1, Len(equity_records)) = equity_records
       /\ equity_records'[Len(equity_records')].timestamp = isoformat(bar'[1].time)
       /\ Len(equity_records') = n_updates'
       /\ \A i \in 1..(Len(equity_records') - 1) :
             \E t1, t2 \in Timestamps :
                /\ equity_records'[i].timestamp = isoformat(t1)
                /\ equity_records'[i + 1].timestamp = isoformat(t2)
                /\ TsLT(t1, t2)
      ]_vars

\* a finished run of MaxBars bars that traded: MaxBars records, whose
\* positions and equities differ from bar to bar
C19_Witness ==
    /\ done
    /\ Len(equity_records) = MaxBars
    /\ equity_records[1].position = 0
    /\ equity_records[2].position # 0
    /\ equity_records[2].equity # equity_records[3].equity
    /\ LastRec.timestamp = isoformat(bar[1].time)

\* C20 (decision): after every non-final bar the stored intent is, if the
\* bar's RiskAction has flatten = TRUE, target 0 with the reason "risk:"
\* followed by the risk reason, whatever the signal; otherwise target =
\* signal.direction * position_size with the signal's reason.
C20_Decision ==
    signal # None =>
        /\ _pending_intent # None
        /\ risk_action.flatten =>
              /\ _pending_intent[1].target_position = 0
              /\ _pending_intent[1].reason = <<"risk:", risk_action.reason>>
        /\ ~risk_action.flatten =>
              /\ _pending_intent[1].target_position = signal[1].direction * PositionSize
              /\ _pending_intent[1].reason = signal[1].reason

\* the bar on which a limit fired: the strategy signalled short, the stored
\* intent is flat and its reason carries the fragments of the risk reason
C20_Witness ==
    /\ signal # None /\ signal[1].direction = -1
    /\ risk_action.flatten /\ risk_action.reason # EmptyStr
    /\ LastRec.position = PositionSize
    /\ _pending_intent = Some([target_position |-> 0,
                               reason |-> <<"risk:", risk_action.reason>>])

\* the features a strategy object requires, read off its attributes
RequiredOf(strategy) ==
    IF "adx_col" \in DOMAIN strategy
    THEN {strategy.fast_col, strategy.slow_col, strategy.adx_col}
    ELSE {strategy.fast_col, strategy.slow_col}

\* the call is in warmup, or a required feature is absent or NaN
GateFails(c) ==
    \/ c.ctx.bar_index < c.strategy._warmup_bars
    \/ \E f \in RequiredOf(c.strategy) :
          \/ f \notin DOMAIN c.ctx.features
          \/ (f \in DOMAIN c.ctx.features /\ c.ctx.features[f] = NaN)

\* the reason contains "warmup" or "feature_nan"
GateReason(reason) == reason \in {"warmup/feature_nan", "warmup", "feature_nan"}

\* C21 (warmup and feature gating): for both strategies, when bar_index <
\* warmup_bars or a required feature is absent or NaN, can_trade is FALSE and
\* on_bar returns the neutral output: direction 0, strength 0 and a reason
\* containing "warmup" or "feature_nan", whatever the features.
C21_WarmupGate ==
    strategy_call # None =>
        LET c == strategy_call[1]
        IN GateFails(c) =>
              /\ ~c.can_trade
              /\ {"direction", "strength", "reason"} \subseteq DOMAIN c.result
              /\ c.result.direction = 0
              /\ c.result.strength = 0
              /\ GateReason(c.result.reason)

\* C22 (moving-average crossover): past warmup with its features present and
\* not NaN, MACrossoverStrategy.on_bar returns a Signal with direction 1,
\* strength 1, reason "cross_above" when fast > slow, direction -1 and reason
\* "cross_below" when fast < slow, direction 0 and reason "equal" when equal.
C22_Crossover ==
    strategy_call # None =>
        LET c == strategy_call[1]
            fast == c.ctx.features["fast"][1]
            slow == c.ctx.features["slow"][1]
        IN (c.strategy._name = "ma_crossover" /\ ~GateFails(c)) =>
              /\ {"direction", "strength", "reason"} \subseteq DOMAIN c.result
              /\ fast > slow =>
                    /\ c.result.direction = 1 /\ c.result.strength = 1
                    /\ c.result.reason = "cross_above"
              /\ fast < slow =>
                    /\ c.result.direction = -1
                    /\ c.result.reason = "cross_below"
              /\ fast = slow =>
                    /\ c.result.direction = 0
                    /\ c.result.reason = "equal"

\* C23 (ADX filter): on a call of ADXFilteredCrossoverStrategy.on_bar that
\* passes the gate, an ADX value strictly below the threshold gives direction 0
\* with reason "adx_below_threshold" whatever fast, slow and the position; an
\* ADX value at or above the threshold gives the plain crossover result.
C23_AdxFilter ==
    strategy_call # None =>
        LET c == strategy_call[1]
            fast == c.ctx.features["fast"][1]
            slow == c.ctx.features["slow"][1]
            adx == c.ctx.features["adx"][1]
        IN (c.strategy._name = "adx_filtered_crossover" /\ ~GateFails(c)) =>
              /\ c.can_trade
              /\ adx < c.strategy.adx_threshold =>
                    /\ c.result.direction = 0
                    /\ c.result.reason = "adx_below_threshold"
              /\ (adx >= c.strategy.adx_threshold /\ fast > slow) =>
                    c.result = [direction |-> 1, strength |-> 1, reason |-> "cross_above"]
              /\ (adx >= c.strategy.adx_threshold /\ fast < slow) =>
                    c.result = [direction |-> -1, strength |-> 1, reason |-> "cross_below"]
              /\ (adx >= c.strategy.adx_threshold /\ fast = slow) =>
                    /\ c.result.direction = 0
                    /\ c.result.reason = "equal"

\* ADX is below the threshold while fast is above slow and a long position is
\* open: the signal is flat
C23_Witness ==
    /\ strategy_call # None
    /\ strategy_call[1].strategy._name = "adx_filtered_crossover"
    /\ strategy_call[1].ctx.bar_index >= 2
    /\ strategy_call[1].ctx.position = 1
    /\ strategy_call[1].ctx.features = [fast |-> Some(105), slow |-> Some(100), adx |-> Some(20)]
    /\ strategy_call[1].result.direction = 0
    /\ strategy_call[1].result.reason = "adx_below_threshold"

\* C24 (strategy registry): build_strategy raises ValueError when the config
\* has no 'type' key and when the type is not registered, and then calls no
\* builder; otherwise it calls the builder registered under the type, with the
\* remaining keys; the caller's dict is the same after the call, 'type' included.
C24_Registry ==
    (registry_call # None /\ registry_call[1].op = "build_strategy") =>
        LET c == registry_call[1]
            known == "type" \in DOMAIN c.before /\ c.before["type"] # None
                        /\ c.before["type"][1] \in DOMAIN c.registry
        IN /\ "type" \notin DOMAIN c.before =>
                 /\ "raises" \in DOMAIN c.outcome
                 /\ c.outcome.raises = "ValueError"
           /\ ~known =>
                 /\ "raises" \in DOMAIN c.outcome
                 /\ c.outcome.raises = "ValueError"
                 /\ "calls" \notin DOMAIN c.outcome
           /\ known =>
                 /\ "raises" \notin DOMAIN c.outcome
                 /\ c.outcome.calls = c.registry[c.before["type"][1]]
                 /\ DOMAIN c.outcome.params = DOMAIN c.before \ {"type"}
                 /\ \A k \in DOMAIN c.outcome.params : c.outcome.params[k] = c.before[k]
           /\ DOMAIN c.after = DOMAIN c.before
           /\ \A k \in DOMAIN c.before : c.after[k] = c.before[k]

----------------------------------------------------------------------------
\* The violations of a DataFrame of bars, stated on its rows: the instant of
\* a row is its wall time less its UTC offset.
HasTime(df) == "time" \in df.columns
RowInstant(df, i) == df.rows[i]["time"][1][1] - df.rows[i]["time"][1][2]
NullRows(df) == {i \in 1..Len(df.rows) : df.rows[i]["time"] = NaT}
RepeatRows(df) ==
    {i \in 1..Len(df.rows) : \E j \in 1..Len(df.rows) : j < i /\ RowInstant(df, j) = RowInstant(df, i)}
OutOfOrder(df) ==
    \E i, j \in 1..Len(df.rows) : i < j /\ RowInstant(df, i) > RowInstant(df, j)
NanColumns(df) ==
    {c \in OHLC \cap df.columns : \E i \in 1..Len(df.rows) : df.rows[i][c] = NaN}
NegativeSpreadRows(df) ==
    IF "spread" \in df.columns
    THEN {i \in 1..Len(df.rows) : df.rows[i]["spread"][1] < 0}
    ELSE {}

\* C25: validate_bars raises a ValueError for a missing 'time' column, null
\* timestamps (with their count), duplicate timestamps (with their count),
\* timestamps out of ascending row order, NaN in an OHLC column and negative
\* spread (with its count); the checks run in that order, the first
\* violation found is the one reported, and the call returns without error
\* only when none of them holds.
C25_ValidationGate ==
    (bars_df # None /\ validate_result # None) =>
        LET df == bars_df[1]
            result == validate_result[1]
        IN IF ~HasTime(df)
           THEN result = Raises("ValueError", <<"Missing 'time' column">>)
           ELSE IF NullRows(df) # {}
           THEN result = Raises("ValueError", <<"Null timestamps found: ",
                                                Cardinality(NullRows(df)), " rows">>)
           ELSE IF RepeatRows(df) # {}
           THEN result = Raises("ValueError", <<"Duplicate timestamps found: ",
                                                Cardinality(RepeatRows(df))>>)
           ELSE IF OutOfOrder(df)
           THEN result = Raises("ValueError", <<"Timestamps not monotonic increasing">>)
           ELSE IF NanColumns(df) # {}
           THEN result = Raises("ValueError", <<"NaN values in ", NanColumns(df)>>)
           ELSE IF NegativeSpreadRows(df) # {}
           THEN result = Raises("ValueError", <<"Negative spread found: ",
                                                Cardinality(NegativeSpreadRows(df)), " rows">>)
           ELSE result = Returns(None)

\* a frame whose timestamps repeat once after conversion to UTC, are out of
\* order, and whose bars hold a NaN and a negative spread: the duplicate is
\* what is reported
C25_Witness ==
    /\ bars_df # None /\ validate_result # None
    /\ HasTime(bars_df[1]) /\ NullRows(bars_df[1]) = {}
    /\ Cardinality(RepeatRows(bars_df[1])) = 1
    /\ OutOfOrder(bars_df[1])
    /\ NanColumns(bars_df[1]) # {}
    /\ NegativeSpreadRows(bars_df[1]) # {}
    /\ \E i \in 1..Len(bars_df[1].rows) : bars_df[1].rows[i]["time"][1][2] # 0
    /\ validate_result[1] = Raises("ValueError", <<"Duplicate timestamps found: ", 1>>)


\* the first row of df at each instant, with its time converted to UTC
FirstOccurrences(df) ==
    {[df.rows[i] EXCEPT !["time"] = to_datetime_utc(df.rows[i]["time"])] :
        i \in {k \in 1..Len(df.rows) : k \notin RepeatRows(df)}}

\* C26: for an input with a 'time' column the bars a BarIterator exposes
\* have strictly increasing timestamps: sorted ascending by time, and of the
\* rows with one timestamp only the first occurrence is kept.
C26_IteratorGuarantees ==
    (bars_df # None /\ bars # None /\ "returns" \in DOMAIN bars[1]) =>
        LET rows == bars[1].returns.rows
        IN /\ \A i \in 1..(Len(rows) - 1) :
                 Instant(rows[i]["time"]) < Instant(rows[i + 1]["time"])
           /\ {rows[i] : i \in 1..Len(rows)} = FirstOccurrences(bars_df[1])


\* C27: validating an already-valid bar sequence changes nothing: the call
\* leaves the rows, the columns and every value of the caller's DataFrame as
\* they were, and validating it a second time gives the same outcome.
C27_ValidIsUnchanged ==
    [][(validate_result = None /\ validate_result' = Some(Returns(None))) =>
          /\ bars_df'[1].columns = bars_df[1].columns
          /\ Len(bars_df'[1].rows) = Len(bars_df[1].rows)
          /\ bars_df'[1].rows = bars_df[1].rows
          /\ validate_bars(bars_df'[1]).outcome = Returns(None)
          /\ validate_bars(bars_df'[1]).df = bars_df[1]]_vars

\* a valid frame of two bars with spread, one of them timed with a UTC
\* offset, has passed validation
C27_Witness ==
    /\ bars_df # None
    /\ validate_result = Some(Returns(None))
    /\ Len(bars_df[1].rows) = 2
    /\ bars_df[1].columns = {"time", "spread"} \cup OHLC
    /\ \E i \in 1..2 : bars_df[1].rows[i]["time"][1][2] # 0
    /\ validate_bars(bars_df[1]) = [df |-> bars_df[1], outcome |-> Returns(None)]


\* the name a spec gives its column: its alias if it has one, else the name
\* of its base indicator followed by the suffix of each transform in order
RECURSIVE WithSuffixes(_, _)
WithSuffixes(name, transforms) ==
    IF transforms = <<>> THEN name
    ELSE WithSuffixes(name \o Transform_name(Head(transforms)), Tail(transforms))

NamedBySpec(spec) ==
    IF spec.alias \in {None, Some(<<>>)}
    THEN WithSuffixes(Indicator_name(spec.base), spec.transforms)
    ELSE spec.alias[1]

Permutations(n) == {p \in [1..n -> 1..n] : \A i, j \in 1..n : i # j => p[i] # p[j]}

\* C28: FeaturePipeline.transform returns one row per input bar in the same
\* order and one column per configured FeatureSpec, holding what the spec
\* computes and named by the spec (alias, else base name followed by the
\* transform suffixes in order), with the columns in lexicographic order
\* whatever the order in which the specs were configured.  It returns when
\* the frame has the columns that are read and, for an ADX spec, a row.
C28_FeatureMatrix ==
    (ohlcv_df # None /\ X_df # None) =>
        LET n == Len(feature_specs)
            readable == /\ required_columns \subseteq ohlcv_df[1].columns
                        /\ \A i \in 1..n : feature_specs[i].base.indicator = "SMA" =>
                              feature_specs[i].base.src \in ohlcv_df[1].columns
                        /\ \A i \in 1..n : feature_specs[i].base.indicator = "ADX" =>
                              Len(ohlcv_df[1].index) > 0
        IN /\ readable => "returns" \in DOMAIN X_df[1]
           /\ "returns" \in DOMAIN X_df[1] =>
                 LET matrix == X_df[1].returns
                 IN /\ matrix.index = ohlcv_df[1].index
                    /\ Len(matrix.columns) = n
                    /\ \A i \in 1..n : \E j \in 1..n :
                          /\ matrix.columns[j].label = NamedBySpec(feature_specs[i])
                          /\ matrix.columns[j].series.base = feature_specs[i].base
                          /\ matrix.columns[j].series.transforms = feature_specs[i].transforms
                    /\ \A j \in 1..(n - 1) :
                          StrLess(matrix.columns[j].label, matrix.columns[j + 1].label)
                    /\ \A p \in Permutations(n) :
                          transform([i \in 1..n |-> feature_specs[p[i]]], ohlcv_df[1]) = X_df[1]

\* the three specs of the pipeline's naming test, configured in another
\* order than that of their names, on a frame of three rows
C28_Witness ==
    /\ ohlcv_df # None /\ X_df # None /\ "returns" \in DOMAIN X_df[1]
    /\ feature_specs = <<FeatureSpec(SMA(10, "close"), <<Diff(1), ZScoreRolling(20)>>, None),
                         FeatureSpec(SMA(10, "close"), <<>>, None),
                         FeatureSpec(SMA(10, "close"), <<Diff(1)>>, None)>>
    /\ ohlcv_df[1].index = <<2, 0, 1>>
    /\ X_df[1].returns.index = <<2, 0, 1>>
    /\ [j \in 1..3 |-> X_df[1].returns.columns[j].label] =
          << <<"s", "m", "a", "_", "1", "0", "_", "c", "l", "o", "s", "e">>,
             <<"s", "m", "a", "_", "1", "0", "_", "c", "l", "o", "s", "e",
               "_", "d", "i", "f", "f", "_", "1">>,
             <<"s", "m", "a", "_", "1", "0", "_", "c", "l", "o", "s", "e",
               "_", "d", "i", "f", "f", "_", "1",
               "_", "z", "s", "c", "o", "r", "e", "_", "2", "0">> >>

CloseToFlat ==
    /\ _position # 0
    /\ _pending_intent # None
    /\ _pending_intent[1].target_position = 0

\* C30: when the execution step closes a position and does not reopen
\* (target 0), position, entry price and entry timestamp are all reset:
\* position = 0, entry price = 0, and the entry timestamp no longer holds
\* the entry time of the closed position.
C30_CloseResetsEntry ==
    [][CloseToFlat =>
          /\ Len(all_fills') = Len(all_fills) + 1
          /\ _position' = 0
          /\ _entry_price' = 0
          /\ _entry_ts' # _entry_ts
      ]_vars


\* the checks that newly fire on an update, in the order global, daily,
\* monthly, read off the manager's state before and after it
FiredKinds ==
    (IF ~_risk_halted /\ _risk_halted' THEN <<"Global DD">> ELSE <<>>)
    \o (IF _daily_halts' = _daily_halts + 1 THEN <<"Daily DD">> ELSE <<>>)
    \o (IF _monthly_halts' = _monthly_halts + 1 THEN <<"Monthly DD">> ELSE <<>>)

\* C31: when several risk checks fire on the same update the returned reason
\* is their fragments in the fixed order global, daily, monthly, joined by
\* "; "; the reason is the empty string on an update where no check newly
\* fires.
C31_ReasonOrder ==
    [][n_updates' = n_updates + 1 =>
          LET reason == risk_action'.reason
              k == Len(FiredKinds)
          IN /\ (k = 0) => reason = EmptyStr
             /\ (k > 0) =>
                   /\ Len(reason) = 2 * k - 1
                   /\ \A i \in 1..k : "kind" \in DOMAIN reason[2 * i - 1]
                                      /\ reason[2 * i - 1].kind = FiredKinds[i]
                   /\ \A i \in 1..(k - 1) : reason[2 * i] = [text |-> "; "]
      ]_vars

\* one update on which the global, the daily and the monthly check all fired
C31_Witness ==
    /\ Len(risk_action.reason) = 5
    /\ risk_action.reason[1].kind = "Global DD"
    /\ risk_action.reason[2] = [text |-> "; "]
    /\ risk_action.reason[3].kind = "Daily DD"
    /\ risk_action.reason[4] = [text |-> "; "]
    /\ risk_action.reason[5].kind = "Monthly DD"
    /\ _risk_halted /\ _daily_halts = 1 /\ _monthly_halts = 1


\* the sum of pnl over the first n fills, and the fills closed up to bar i
RECURSIVE SumPnl(_)
SumPnl(n) == IF n = 0 THEN 0 ELSE SumPnl(n - 1) + all_fills[n].pnl

FillsUpTo(i) ==
    Cardinality({k \in 1..Len(all_fills) :
                    \E j \in 1..i : all_fills[k].exit_ts = equity_records[j].timestamp})

\* C32: after every process_bar call the engine's realized equity equals
\* starting capital plus the sum of pnl over all fills so far; each bar's
\* record has realized_pnl equal to the sum of pnl over the fills up to that
\* bar, equity equal to realized equity + unrealized_pnl, and unrealized_pnl
\* = 0 whenever the recorded position is 0.
C32_Accounting ==
    /\ _equity = StartingCapital + SumPnl(Len(all_fills))
    /\ \A i \in 1..Len(equity_records) :
          LET r == equity_records[i]
          IN /\ r.realized_pnl = SumPnl(FillsUpTo(i))
             /\ r.equity = StartingCapital + r.realized_pnl + r.unrealized_pnl
             /\ (r.position = 0 => r.unrealized_pnl = 0)
    /\ equity_records # <<>> =>
          /\ LastRec.realized_pnl = SumPnl(Len(all_fills))
          /\ LastRec.equity = _equity + LastRec.unrealized_pnl

\* a position was closed at a loss and another is open with an unrealized
\* gain on the latest bar
C32_Witness ==
    /\ all_fills # <<>>
    /\ all_fills[1].pnl < 0
    /\ _equity = StartingCapital + all_fills[1].pnl
    /\ equity_records # <<>>
    /\ LastRec.position # 0
    /\ LastRec.unrealized_pnl > 0
    /\ LastRec.equity = _equity + LastRec.unrealized_pnl
    /\ \E i \in 1..Len(equity_records) : equity_records[i].realized_pnl = 0


\* C33: the adx_filtered builder returns a strategy whose warmup_bars is
\* max(slow_period, 2 * adx_period), with exactly three feature specs whose
\* names are the strategy's fast, slow and ADX columns, so every feature
\* the strategy requires is produced by the returned specs.
C33_AdxBuilder ==
    (build_call # None /\ "returns" \in DOMAIN build_call[1].outcome) =>
        LET params == build_call[1].params
            strategy == build_call[1].outcome.returns.strategy
            specs == build_call[1].outcome.returns.specs
            slow_period == params["slow_period"]
            adx_period == IF "adx_period" \in DOMAIN params THEN params["adx_period"] ELSE 14
            names == [i \in 1..Len(specs) |-> NamedBySpec(specs[i])]
        IN /\ strategy._warmup_bars >= slow_period
           /\ strategy._warmup_bars >= 2 * adx_period
           /\ strategy._warmup_bars \in {slow_period, 2 * adx_period}
           /\ Len(specs) = 3
           /\ names = <<strategy.fast_col, strategy.slow_col, strategy.adx_col>>
           /\ \A i \in 1..Len(required_features(strategy)) :
                 \E j \in 1..Len(specs) : names[j] = required_features(strategy)[i]

\* the builder was called as its test calls it with a large ADX period:
\* slow period 20, ADX period 30, warmup 60
C33_Witness ==
    /\ build_call # None
    /\ "returns" \in DOMAIN build_call[1].outcome
    /\ build_call[1].params["slow_period"] = 20
    /\ "adx_period" \in DOMAIN build_call[1].params
    /\ build_call[1].params["adx_period"] = 30
    /\ build_call[1].outcome.returns.strategy._warmup_bars = 60
    /\ build_call[1].outcome.returns.strategy.adx_col = <<"a", "d", "x", "_", "3", "0">>
    /\ build_call[1].outcome.returns.strategy.slow_col
          = <<"s", "m", "a", "_", "2", "0", "_", "c", "l", "o", "s", "e">>


\* C34: with signal directions in {-1, 0, +1} and a fixed position size s
\* the engine's position is always in {-s, 0, +s}, and after the execution
\* step of a bar it equals the target of the intent stored on the bar
\* before; on the first bar (no pending intent) the position is 0, no fill
\* is created and the recorded equity equals the starting capital.
C34_PositionFollowsIntent ==
    [][Len(equity_records') = Len(equity_records) + 1 =>
          /\ _position' \in {-PositionSize, 0, PositionSize}
          /\ equity_records'[Len(equity_records')].position = _position'
          /\ (_pending_intent # None =>
                 _position' = _pending_intent[1].target_position)
          /\ (equity_records = <<>> =>
                 /\ _pending_intent = None
                 /\ _position' = 0
                 /\ all_fills' = <<>>
                 /\ equity_records'[1].equity = StartingCapital)
      ]_vars

\* a replay of three bars: flat on the first, long on the second as the
\* first bar's intent asked, short on the third as the second's asked
C34_Witness ==
    /\ Len(equity_records) = 3
    /\ equity_records[1].position = 0
    /\ equity_records[1].equity = StartingCapital
    /\ equity_records[2].position = PositionSize
    /\ equity_records[3].position = -PositionSize
    /\ _position = -PositionSize
    /\ Len(all_fills) = 1
    /\ all_fills[1].exit_ts = equity_records[3].timestamp


\* the call asks to resize: a nonzero position and a nonzero target of the
\* same sign and another magnitude
Resize(c) ==
    /\ c.position # 0 /\ c.target_position # 0
    /\ c.position * c.target_position > 0
    /\ Abs(c.target_position) # Abs(c.position)

\* C35: in _execute_order, when the current position is nonzero and the
\* target is nonzero with the same sign but a different magnitude, nothing
\* happens: position, entry price and entry timestamp are returned
\* unchanged and no Fill is created, so the target is not reached.
C35_ResizeIsIgnored ==
    (order_call # None /\ Resize(order_call[1])) =>
        LET c == order_call[1]
        IN /\ c.result.position = c.position
           /\ c.result.entry_price = c.entry_price
           /\ c.result.entry_ts = c.entry_ts
           /\ c.result.fills = <<>>
           /\ c.result.position # c.target_position

\* long 1 entered at 10 was asked to become long 2 at an open of 20
C35_Witness ==
    /\ order_call # None
    /\ order_call[1].position = 1 /\ order_call[1].target_position = 2
    /\ order_call[1].entry_price = 10 /\ order_call[1].bar_open = 20
    /\ order_call[1].result.position = 1
    /\ order_call[1].result.entry_price = 10
    /\ order_call[1].result.fills = <<>>


\* the calendar dates and the (year, month) pairs of the bars replayed so far
DatesSeen == {<<equity_records[i].timestamp[1], equity_records[i].timestamp[2],
                equity_records[i].timestamp[3]>> : i \in 1..Len(equity_records)}

MonthsSeen == {<<equity_records[i].timestamp[1], equity_records[i].timestamp[2]>> :
                  i \in 1..Len(equity_records)}

\* C36: the halt counters never decrease and grow by at most one per update;
\* an update counts a daily (monthly) halt only if it crossed a day (month)
\* boundary or found the pause flag clear, and it leaves the flag set, so
\* between two boundary resets a counter grows by at most one; over a
\* chronological replay daily_halts is at most the number of distinct dates
\* seen and monthly_halts at most the number of distinct (year, month) pairs.
C36_HaltCounters ==
    /\ [](/\ _daily_halts <= Cardinality(DatesSeen)
          /\ _monthly_halts <= Cardinality(MonthsSeen))
    /\ [][/\ _daily_halts' \in {_daily_halts, _daily_halts + 1}
          /\ _monthly_halts' \in {_monthly_halts, _monthly_halts + 1}
          /\ _daily_halts' = _daily_halts + 1
                => (_daily_paused' /\ (~_daily_paused \/ _current_day' # _current_day))
          /\ _monthly_halts' = _monthly_halts + 1
                => (_monthly_paused' /\ (~_monthly_paused \/ _current_month' # _current_month))
          /\ (_daily_paused /\ _current_day' = _current_day) => _daily_halts' = _daily_halts
          /\ (_monthly_paused /\ _current_month' = _current_month)
                => _monthly_halts' = _monthly_halts
         ]_vars

\* three bars of one day: the second breached the daily limit, the third is
\* still below it and the day counts one halt; the month counts one as well
C36_Witness ==
    /\ Len(equity_records) = 3
    /\ Cardinality(DatesSeen) = 1
    /\ equity_records[2].equity = 90 /\ equity_records[3].equity = 90
    /\ _cfg.daily_dd_limit = Some(5) /\ _cfg.monthly_dd_limit = Some(5)
    /\ _daily_paused /\ _daily_halts = 1
    /\ _monthly_paused /\ _monthly_halts = 1


\* C37: the halt timestamp is written once: risk_halted_at is None until the
\* first update whose global drawdown is at or above the limit, that update
\* sets it to the timestamp of its own bar, and no later update changes it;
\* the global tracker goes on after the halt: the peak stays the high-water
\* mark of the equities and the maximum drawdown the largest drawdown seen.
C37_HaltWrittenOnce ==
    [][n_updates' = n_updates + 1 =>
          LET eq == _last_equity_close'
              pk == _peak_equity'
              mx == _max_drawdown_pct'
          IN /\ (_risk_halted_at # None) => _risk_halted_at' = _risk_halted_at
             /\ (_risk_halted_at = None /\ ~GlobalObserved') => _risk_halted_at' = None
             /\ (_risk_halted_at = None /\ GlobalObserved') =>
                   /\ update_bar_ts' # None
                   /\ update_bar_ts'[1] \in Timestamps
                   /\ _risk_halted_at' = isoformat(update_bar_ts'[1])
                   /\ date(update_bar_ts'[1]) = _current_day'
             /\ (_risk_halted_at' # None) = _risk_halted'
             /\ pk = (IF eq > _peak_equity THEN eq ELSE _peak_equity)
             /\ (pk - eq) * 100 * mx.d <= mx.n * pk
             /\ \/ mx = _max_drawdown_pct
                \/ /\ RatLT(_max_drawdown_pct, mx)
                   /\ mx.n * pk = (pk - eq) * 100 * mx.d
      ]_vars

\* halted at 90 under the peak of 100 on the bar of 2024-01-01 01:00; a later
\* update raised the peak to 105 and the update after it, on the bar of
\* 2025-01-01 00:00, fell to 90 and raised the maximum drawdown to 15/105;
\* the halt timestamp is still the first one
C37_Witness ==
    /\ n_updates = 3
    /\ _risk_halted
    /\ _risk_halted_at = <<2024, 1, 1, 1>>
    /\ update_bar_ts = Some(Ts(2025, 1, 1, 0))
    /\ _current_day = <<2025, 1, 1>>
    /\ _day_start_equity = 105
    /\ _peak_equity = 105 /\ _last_equity_close = 90
    /\ _max_drawdown_pct.n * 105 = 1500 * _max_drawdown_pct.d


\* the reason returned by the update that has just run names the global check
GlobalFragmentReturned ==
    \E i \in 1..Len(risk_action'.reason) :
        /\ "kind" \in DOMAIN risk_action'.reason[i]
        /\ risk_action'.reason[i].kind = "Global DD"

\* C38: the "Global DD" fragment is returned by the update that first
\* breaches the global limit and by no other; the halt stays, and every later
\* bar returns flatten with an empty reason unless a daily or monthly check
\* newly fires on it, so the intent the engine stores on such a bar is flat
\* with the reason "risk:" followed by nothing.
C38_GlobalReasonOnce ==
    [][Len(equity_records') = Len(equity_records) + 1 =>
          /\ GlobalFragmentReturned = (~_risk_halted /\ _risk_halted')
          /\ _risk_halted =>
                /\ _risk_halted'
                /\ risk_action'.flatten
                /\ ~GlobalFragmentReturned
                /\ (risk_action'.reason = EmptyStr)
                      = (_daily_halts' = _daily_halts /\ _monthly_halts' = _monthly_halts)
                /\ ~done' =>
                      /\ _pending_intent' # None
                      /\ _pending_intent'[1].target_position = 0
                      /\ _pending_intent'[1].reason = <<"risk:", risk_action'.reason>>
                      /\ (_daily_halts' = _daily_halts /\ _monthly_halts' = _monthly_halts)
                            => _pending_intent'[1].reason = <<"risk:", EmptyStr>>
      ]_vars

\* the halt fired on the second bar with its "Global DD" reason stored in the
\* intent; the third bar is halted, the strategy signals long, the reason
\* returned is empty and the intent stored is flat with reason "risk:"
C38_Witness ==
    /\ Len(equity_records) = 3
    /\ ~done
    /\ _risk_halted
    /\ _risk_halted_at = equity_records[2].timestamp
    /\ equity_records[2].position # 0
    /\ signal # None /\ signal[1].direction = 1
    /\ risk_action.flatten /\ risk_action.reason = EmptyStr
    /\ _pending_intent = Some(OrderIntent(0, <<"risk:", EmptyStr>>))


\* the calendar date of the i-th bar replayed
RecordDate(i) == <<equity_records[i].timestamp[1], equity_records[i].timestamp[2],
                   equity_records[i].timestamp[3]>>

\* C39: once a daily pause has triggered on a bar of day D, the bar that
\* follows is executed and recorded flat, be it a later bar of day D or the
\* first bar of the next day; within day D the pause stays and the intent
\* left pending stays flat, so a position can be opened again at the
\* earliest on the second bar of the next day.
C39_FlatUntilNextDay ==
    [][(Len(equity_records') = Len(equity_records) + 1 /\ _daily_paused) =>
          /\ _position' = 0
          /\ equity_records'[Len(equity_records')].position = 0
          /\ _current_day' = _current_day =>
                /\ _daily_paused'
                /\ _daily_halts' = _daily_halts
                /\ (~done' => _pending_intent'[1].target_position = 0)
      ]_vars

\* the daily limit was breached on the second bar, with a position open;
\* the third bar, the first of the next day, is flat, and the fourth, the
\* second of that day, holds a new position
C39_Witness ==
    /\ Len(equity_records) = 4
    /\ _cfg.daily_dd_limit = Some(5)
    /\ _daily_halts = 1
    /\ equity_records[2].position # 0 /\ equity_records[2].equity = 90
    /\ RecordDate(2) = RecordDate(1)
    /\ RecordDate(3) # RecordDate(2)
    /\ equity_records[3].position = 0
    /\ RecordDate(4) = RecordDate(3)
    /\ equity_records[4].position # 0


\* the loop's trade k and the engine's fill k are the same trade: the same
\* fields, entered and exited on the same bars
SameTrade(trade, fill) ==
    /\ trade.side = fill.side /\ trade.qty = fill.qty
    /\ trade.entry_price = fill.entry_price /\ trade.exit_price = fill.exit_price
    /\ trade.pnl = fill.pnl
    /\ trade.entry_ts # None
    /\ fill.entry_ts = equity_records[trade.entry_ts[1]].timestamp
    /\ fill.exit_ts = equity_records[trade.exit_ts].timestamp

\* the loop's record i and the engine's record i hold the same figures
SameRecord(rec, engine_rec) ==
    /\ rec.equity = engine_rec.equity /\ rec.position = engine_rec.position
    /\ rec.unrealized_pnl = engine_rec.unrealized_pnl
    /\ rec.realized_pnl = engine_rec.realized_pnl

\* C40: run_backtest's inline loop and TradingEngine.process_bar with no
\* risk limits and position_size 1, given the same bars and the same
\* strategy targets, agree after every bar on the position, the entry price,
\* the realized equity, the trades / fills and the equity records, on the
\* target carried to the next bar, and both stop after recording the last bar.
C40_LoopMatchesEngine ==
    run.locals # None =>
        LET l == run.locals[1]
        IN /\ l.position = _position
           /\ l.entry_price = _entry_price
           /\ l.equity = _equity
           /\ Len(l.equity_records) = Len(equity_records)
           /\ l.i = Len(equity_records)
           /\ \A i \in 1..Len(equity_records) :
                 SameRecord(l.equity_records[i], equity_records[i])
           /\ Len(l.trades) = Len(all_fills)
           /\ \A k \in 1..Len(all_fills) : SameTrade(l.trades[k], all_fills[k])
           /\ (run.pc = "done") = done
           /\ done => _pending_intent = None
           /\ (~done /\ equity_records # <<>>) =>
                 /\ _pending_intent # None
                 /\ _pending_intent[1].target_position = l.target_position

\* a run of four bars done on both sides: flat through the warmup, long on
\* the third bar, flipped short on the fourth with a trade closed, still
\* short when the loop stops
C40_Witness ==
    /\ run.pc = "done" /\ done
    /\ Len(equity_records) = 4
    /\ equity_records[2].position = 0
    /\ equity_records[3].position = 1
    /\ equity_records[4].position = -1
    /\ _position = -1 /\ run.locals[1].position = -1
    /\ Len(all_fills) = 1 /\ Len(run.locals[1].trades) = 1
    /\ all_fills[1].pnl # 0
    /\ equity_records[4].unrealized_pnl # 0

====
